---- MODULE Spec2Model ----
(***************************************************************************)
(* A model of the sentio i18n runtime: the fallback resolver, the key-path *)
(* resolver and the runtime instance created by createI18n (translate,     *)
(* setLocale, loadLocale, loadNamespace).                                   *)
(*                                                                         *)
(* JavaScript strings are modelled as sequences of one-character strings,  *)
(* so that split('-'), split('.') and includes('.') are computed and not   *)
(* assumed.  A dictionary is a function from strings to values; a value is *)
(* a record with a kind ("string", "object" or "number").                  *)
(***************************************************************************)
EXTENDS Integers, Sequences, FiniteSets, TLC

\* ------------------------------------------------------------------ bounds

\* Longest locale code the fallback resolver is applied to.
MaxLocaleLen == 3

\* Longest dotted path getByPath is applied to.
MaxPathLen == 3

\* Nesting depth of the dictionaries getByPath is applied to.
MaxDepth == 2

\* ----------------------------------------------------------------- strings

Range(s) == {s[i] : i \in 1..Len(s)}

\* All strings over alphabet A of length at most n.
StringsUpTo(A, n) == UNION {[1..k -> A] : k \in 0..n}

\* String.prototype.split with a one-character separator: every occurrence
\* of sep ends a part, so the result has (occurrences + 1) parts, some of
\* which may be empty; ''.split(sep) is [''].
RECURSIVE SplitFrom(_, _, _, _)
SplitFrom(s, sep, i, cur) ==
    IF i > Len(s) THEN <<cur>>
    ELSE IF s[i] = sep THEN <<cur>> \o SplitFrom(s, sep, i + 1, <<>>)
    ELSE SplitFrom(s, sep, i + 1, Append(cur, s[i]))

Split(s, sep) == SplitFrom(s, sep, 1, <<>>)

\* Array.prototype.includes
Includes(arr, x) == \E i \in 1..Len(arr) : arr[i] = x

\* ------------------------------------------------------- fallback resolver

\* parseLocale: base is parts[0]; region is parts[1], undefined when the
\* locale holds no separator.
parseLocale(locale) ==
    LET parts == Split(locale, "-")
    IN  [base |-> parts[1],
         hasRegion |-> Len(parts) >= 2,
         region |-> IF Len(parts) >= 2 THEN parts[2] ELSE <<>>]

\* if (region): undefined and the empty string are falsy.
Truthy(p) == p.hasRegion /\ p.region # <<>>

\* Faulty variant: the base locale is not emitted when the locale has a region.
buildFallbackChainNoBase(locale, fallback) ==
    LET p == parseLocale(locale)
        c1 == IF Truthy(p) THEN <<locale>> ELSE <<p.base>>
    IN  IF fallback # p.base /\ ~Includes(c1, fallback)
        THEN Append(c1, fallback) ELSE c1

\* Faulty variant: the base locale is emitted before the full locale.
buildFallbackChainBaseFirst(locale, fallback) ==
    LET p == parseLocale(locale)
        c1 == <<p.base>>
        c2 == IF Truthy(p) THEN Append(c1, locale) ELSE c1
    IN  IF fallback # p.base /\ ~Includes(c2, fallback)
        THEN Append(c2, fallback) ELSE c2

buildFallbackChain(locale, fallback) ==
    LET p == parseLocale(locale)
        c1 == IF Truthy(p) THEN <<locale>> ELSE <<>>
        c2 == IF ~Includes(c1, p.base) THEN Append(c1, p.base) ELSE c1
        c3 == IF fallback # p.base /\ ~Includes(c2, fallback)
              THEN Append(c2, fallback) ELSE c2
    IN  c3

\* ------------------------------------------------------------- dictionaries

EmptyDict == [k \in {} |-> 0]

StrV(s) == [kind |-> "string", str |-> s, obj |-> EmptyDict]
ObjV(d) == [kind |-> "object", str |-> <<>>, obj |-> d]
NumV == [kind |-> "number", str |-> <<>>, obj |-> EmptyDict]
UndefV == [kind |-> "undefined", str |-> <<>>, obj |-> EmptyDict]

\* The result of a lookup: a string, or undefined.
Found(s) == [found |-> TRUE, str |-> s]
NotFound == [found |-> FALSE, str |-> <<>>]

\* current[segment]: undefined when the object has no such property.
Prop(d, segment) == IF segment \in DOMAIN d THEN d[segment] ELSE UndefV

\* The loop of getByPath from segment i on, then the final typeof test.
RECURSIVE WalkPath(_, _, _)
WalkPath(current, segments, i) ==
    IF i > Len(segments)
    THEN IF current.kind = "string" THEN Found(current.str) ELSE NotFound
    ELSE IF current.kind = "undefined" THEN NotFound
    ELSE IF current.kind # "object" THEN NotFound
    ELSE WalkPath(Prop(current.obj, segments[i]), segments, i + 1)

getByPath(obj, path) == WalkPath(ObjV(obj), Split(path, "."), 1)

\* The orders Object.entries may list the properties of an object in: the
\* order of insertion, which a dictionary of the model does not record.
EntryOrders(obj) ==
    {order \in [1..Cardinality(DOMAIN obj) -> DOMAIN obj] :
        \A i, j \in DOMAIN order : i # j => order[i] # order[j]}

\* Object.assign(result, more), and result[fullKey] = value.
ObjectAssign(result, more) ==
    [k \in DOMAIN result \cup DOMAIN more |->
        IF k \in DOMAIN more THEN more[k] ELSE result[k]]

\* prefix ? `${prefix}.${key}` : key
FullKey(prefix, key) ==
    IF prefix # <<>> THEN prefix \o <<".">> \o key ELSE key

\* flattenMessages(obj, prefix): the results it may give, one for every
\* order of the entries of obj and of the objects nested in it.  FlattenLoop
\* is its loop from the i-th entry on, result being what was put so far.
RECURSIVE flattenMessages(_, _)
RECURSIVE FlattenLoop(_, _, _, _, _)
FlattenLoop(obj, prefix, order, i, result) ==
    IF i > Len(order) THEN {result}
    ELSE LET key == order[i]
             value == obj[key]
             fullKey == FullKey(prefix, key)
         IN  IF value.kind = "string"
             THEN FlattenLoop(obj, prefix, order, i + 1,
                              ObjectAssign(result, fullKey :> value.str))
             ELSE IF value.kind = "object"
             THEN UNION {FlattenLoop(obj, prefix, order, i + 1,
                                     ObjectAssign(result, nested)) :
                         nested \in flattenMessages(value.obj, fullKey)}
             ELSE FlattenLoop(obj, prefix, order, i + 1, result)

flattenMessages(obj, prefix) ==
    UNION {FlattenLoop(obj, prefix, order, 1, EmptyDict) :
           order \in EntryOrders(obj)}


\* ------------------------------------------------- literal interpolation

\* \w of the placeholder pattern, over the characters the model uses.
WordChars == {"n", "v", "h", "H", "k", "x"}

\* The parameters of a call: not given (undefined), or a map from
\* identifiers to values; a value is a string, null, undefined, or an
\* object that has no conversion to a string (Object.create(null)).
NoParams == [given |-> FALSE, map |-> EmptyDict]
Params(m) == [given |-> TRUE, map |-> m]
PStr(s) == [kind |-> "string", str |-> s]
PNull == [kind |-> "null", str |-> <<>>]
PUndefined == [kind |-> "undefined", str |-> <<>>]
PBare == [kind |-> "bare", str |-> <<>>]

\* String(value), and '' for null and undefined.
Stringify(v) == IF v.kind \in {"null", "undefined"} THEN <<>> ELSE v.str

\* String(value) throws a TypeError.
StringThrows(v) == v.kind = "bare"

\* The index of the last character of the longest run of word characters
\* that starts at i (i - 1 when there is none).
RECURSIVE WordRunEnd(_, _)
WordRunEnd(t, i) ==
    IF i <= Len(t) /\ t[i] \in WordChars THEN WordRunEnd(t, i + 1) ELSE i - 1

\* template.replace(/\{(\w+)\}/g, ...) from position i on.
RECURSIVE ReplaceFrom(_, _, _)
ReplaceFrom(t, map, i) ==
    IF i > Len(t) THEN <<>>
    ELSE LET e == WordRunEnd(t, i + 1)
         IN  IF t[i] = "{" /\ e >= i + 1 /\ e + 1 <= Len(t) /\ t[e + 1] = "}"
             THEN LET key == SubSeq(t, i + 1, e)
                      rep == IF key \in DOMAIN map
                             THEN Stringify(map[key])
                             ELSE SubSeq(t, i, e + 1)
                  IN  rep \o ReplaceFrom(t, map, e + 2)
             ELSE <<t[i]>> \o ReplaceFrom(t, map, i + 1)

interpolate(template, params) ==
    IF ~params.given \/ DOMAIN params.map = {} THEN template
    ELSE ReplaceFrom(template, params.map, 1)

\* Whether the replacer throws at some match from position i on.
RECURSIVE ThrowsFrom(_, _, _)
ThrowsFrom(t, map, i) ==
    IF i > Len(t) THEN FALSE
    ELSE LET e == WordRunEnd(t, i + 1)
         IN  IF t[i] = "{" /\ e >= i + 1 /\ e + 1 <= Len(t) /\ t[e + 1] = "}"
             THEN LET key == SubSeq(t, i + 1, e)
                  IN  \/ key \in DOMAIN map /\ StringThrows(map[key])
                      \/ ThrowsFrom(t, map, e + 2)
             ELSE ThrowsFrom(t, map, i + 1)

\* Whether interpolate(template, params) throws.
interpolateThrows(template, params) ==
    /\ params.given
    /\ DOMAIN params.map # {}
    /\ ThrowsFrom(template, params.map, 1)

\* ----------------------------------------------------- template formatter

\* The keywords plural, select and selectordinal, each one token.
IcuKeywords == {"P", "S", "O"}

\* The faulty variant of isICUMessage: every message with a brace is taken
\* for grammar-bearing.
isICUMessageAnyBrace(m) == \E i \in 1..Len(m) : m[i] = "{"

\* ICU_PATTERN = /\{[^}]+,\s*(plural|select|selectordinal)\s*,/
isICUMessage(m) ==
    \E i \in 1..Len(m) :
        /\ m[i] = "{"
        /\ \E j \in (i + 2)..Len(m) :
            /\ m[j] = ","
            /\ \A x \in (i + 1)..(j - 1) : m[x] # "}"
            /\ \E k \in (j + 1)..Len(m) :
                /\ m[k] \in IcuKeywords
                /\ \A x \in (j + 1)..(k - 1) : m[x] = " "
                /\ \E l \in (k + 1)..Len(m) :
                    /\ m[l] = ","
                    /\ \A x \in (k + 1)..(l - 1) : m[x] = " "

\* `${locale}:${message}`
CacheKey(message, locale) == locale \o <<":">> \o message

\* What IntlMessageFormat does with a template: the constructor may throw
\* (a grammar error), format may throw (a missing argument), or format
\* returns the formatted text.
LibOutcomes == {"ok", "compileThrows", "formatThrows"}

\* The text IntlMessageFormat produces for a template it can evaluate.
Formatted(message, locale) == <<"F">> \o locale

\* getFormatter and format of createICUParser, for one outcome of the
\* library: the result string and the cache afterwards.  format catches
\* everything and returns the message.
icuFormat(cache, message, locale, lib) ==
    LET key == CacheKey(message, locale)
        hit == key \in cache
        compiled == hit \/ lib # "compileThrows"
    IN  [threw |-> FALSE,
         str |-> IF compiled /\ lib = "ok"
                 THEN Formatted(message, locale) ELSE message,
         cache |-> IF compiled THEN cache \cup {key} ELSE cache]

\* ------------------------------------------------------- message lookup

\* Faulty variant: the path walk is tried before the exact-key test.
LookupInDictPathFirst(dict, key) ==
    LET walked == IF Includes(key, ".") THEN getByPath(dict, key) ELSE NotFound
    IN  IF walked.found THEN walked
        ELSE IF key \in DOMAIN dict /\ dict[key].kind = "string"
        THEN Found(dict[key].str)
        ELSE NotFound

\* The body of the loop of resolveMessageFromLoaded for one candidate
\* dictionary: the exact-key test, then the path walk.
LookupInDict(dict, key) ==
    IF key \in DOMAIN dict /\ dict[key].kind = "string"
    THEN Found(dict[key].str)
    ELSE IF Includes(key, ".") THEN getByPath(dict, key)
    ELSE NotFound

\* The loop of resolveMessageFromLoaded over the chain, from candidate i.
RECURSIVE ResolveFrom(_, _, _, _)
ResolveFrom(chain, i, key, messages) ==
    IF i > Len(chain) THEN NotFound
    ELSE IF chain[i] \notin DOMAIN messages
         THEN ResolveFrom(chain, i + 1, key, messages)
         ELSE LET r == LookupInDict(messages[chain[i]], key)
              IN  IF r.found THEN r
                  ELSE ResolveFrom(chain, i + 1, key, messages)

\* Faulty variant: the candidates are tried from the least specific one.
resolveMessageFromLoadedReversed(key, locale, fallback, messages) ==
    LET chain == buildFallbackChain(locale, fallback)
    IN  ResolveFrom([i \in 1..Len(chain) |-> chain[Len(chain) + 1 - i]],
                    1, key, messages)

resolveMessageFromLoaded(key, locale, fallback, messages) ==
    ResolveFrom(buildFallbackChain(locale, fallback), 1, key, messages)


\* ---------------------------------------------------------- model data

\* Source invocations a run may make (the loads are otherwise unbounded).
MaxNsLoads == 2
MaxLocaleLoads == 1

LA == <<"a">>
LB == <<"b">>
LAR == <<"a", "-", "R">>
Locales == {LA, LB, LAR}

\* The locales the instance is constructed with or switched to.
CurrentChoices == {LAR, LB}

Namespaces == {"n1", "n2"}

KAB == <<"a", ".", "b">>
KK == <<"k">>
KG == <<"g">>
KP == <<"p">>
K1 == <<"1", ".", "x">>
K2 == <<"2", ".", "x">>
Keys == {KAB, KK, KG, KP}

\* "h{n}", a plain message with a placeholder.
MsgGreeting == <<"h", "{", "n", "}">>
\* "{n,P,x}", a grammar-bearing message.
MsgPlural == <<"{", "n", ",", "P", ",", "x", "}">>

ParamChoices == {NoParams, Params((<<"n">> :> PStr(<<"v">>)))}

\* config.messages, when the instance is constructed with messages.  The
\* dictionary of LA holds the literal key "a.b" and the nested path a.b;
\* the dictionary of LB holds a literal "a.b" that is no string.
ConfigMessages ==
    (LA :> (KAB :> StrV(<<"f">>)
            @@ <<"a">> :> ObjV((<<"b">> :> StrV(<<"n">>)))
            @@ KG :> StrV(MsgGreeting)))
    @@ (LB :> (KAB :> ObjV(EmptyDict)
               @@ <<"a">> :> ObjV((<<"b">> :> StrV(<<"B">>)))
               @@ KK :> StrV(<<"K">>)
               @@ KG :> StrV(<<"H">>)))

\* What the message loader returns for a locale.
LoaderData(locale) ==
    IF locale = LAR THEN (KK :> StrV(<<"R">>) @@ KP :> StrV(MsgPlural))
    ELSE IF locale = LA THEN (KK :> StrV(<<"A">>))
    ELSE (KK :> StrV(<<"L">>) @@ KG :> StrV(MsgGreeting))

\* What the namespace loader returns for (namespace, locale): one flat key
\* of the namespace, whose text names the namespace and the locale; the
\* fragment of "n2" also holds the flat key "a".
NsData(namespace, locale) ==
    IF namespace = "n1" THEN (K1 :> StrV(<<"1">> \o locale))
    ELSE (K2 :> StrV(<<"2">> \o locale) @@ <<"a">> :> StrV(<<"x">>))

\* The configurations an instance is constructed with: the fallback locale,
\* whether a loader and a namespace loader are given, and config.messages.
Configs ==
    {[fallback |-> LB, loader |-> TRUE, nsLoader |-> TRUE,
      messages |-> ConfigMessages],
     [fallback |-> LA, loader |-> FALSE, nsLoader |-> FALSE,
      messages |-> ConfigMessages]}

\* What a hook does when it is invoked.
HookOutcomes == {"returns", "throws"}

\* ------------------------------------------------------------------ state

VARIABLES
    currentLocale,     \* let currentLocale
    fallbackLocale,    \* const fallbackLocale
    hasLoader,         \* config.loader is given
    hasNsLoader,       \* config.namespaceLoader is given
    loadedMessages,    \* the store: locale -> dictionary
    loadedNamespaces,  \* Map<locale, Set>: locale -> a Set object (0: no entry)
    nsSets,            \* the Set objects: id -> the namespaces it holds
    pending,           \* the loads awaiting their source
    icuCache,          \* the cache of the instance's ICU parser
    nsLoads,           \* invocations of the namespace source so far
    localeLoads,       \* invocations of the message loader so far
    fetched,           \* history: (n, l) fetched for l by a load that went through
    completedAt,       \* history: (n, l) of loads that resolved while l was current
    last,              \* the last call that returned: what the caller saw
    chainIn, chainOut, \* buildFallbackChain applied to an input
    pathIn, pathOut,   \* getByPath applied to an input
    lruMax,            \* createLRUCache: maxSize
    lruCache,          \* createLRUCache: the Map, in insertion order
    lruRef,            \* the reference recency list: key -> time, value
    lruTouched,        \* history: key -> when it was last set or got
    lruClean,          \* history: no delete since the cache was empty
    lruNow,            \* the operations on the cache so far
    lruLast,           \* the last cache operation and what it returned
    parserCache,       \* createICUParser: the Map, cache key -> formatter
    parserLast,        \* the last call of the parser and what it returned
    isoLocale,         \* two instances: instance -> currentLocale
    isoStore,          \* instance -> loadedMessages: locale -> object (0: none)
    isoHeap,           \* the dictionary objects: id -> content
    isoNsMap,          \* instance -> loadedNamespaces: locale -> Set (0: none)
    isoSets,           \* the Set objects: id -> the namespaces held
    isoCache,          \* instance -> the cache of its ICU parser
    isoPending,        \* the loads of the two instances awaiting a source
    isoLoads,          \* invocations of the sources so far
    cEnv,              \* cached loader: is there a localStorage, a config.storage
    cLocal,            \* localStorage under the prefix: locale -> entry
    cCustom,           \* the custom storage: locale -> messages (and when set)
    cLoaded,           \* createCachedLoader: loadedLocales
    cNow,              \* Date.now()
    cPending,          \* the loads awaiting the wrapped source
    cFetches,          \* invocations of the wrapped source so far
    cLast,             \* the last call of load: what it met and did
    apiConfig,         \* createApiLoader: baseUrl, and is there a transform
    apiKnown,          \* createApiLoader: knownLocales
    apiPending,        \* the loads awaiting fetchFn or response.json()
    apiLog,            \* the requests issued through fetchFn, in order
    apiLast,           \* how the last load of the API loader ended
    memMessages,       \* createInMemoryLoader: messages
    memKeys,           \* createInMemoryLoader: locales
    memLast,           \* the last call on the in-memory loader
    interpIn,          \* interpolate: the template and the params
    interpOut          \* interpolate: what it returned

vars == <<currentLocale, fallbackLocale, hasLoader, hasNsLoader,
          loadedMessages, loadedNamespaces, nsSets, pending, icuCache,
          nsLoads, localeLoads, fetched, completedAt, last,
          chainIn, chainOut, pathIn, pathOut,
          lruMax, lruCache, lruRef, lruTouched, lruClean, lruNow, lruLast,
          parserCache, parserLast,
          isoLocale, isoStore, isoHeap, isoNsMap, isoSets, isoCache,
          isoPending, isoLoads,
          cEnv, cLocal, cCustom, cLoaded, cNow, cPending, cFetches, cLast,
          apiConfig, apiKnown, apiPending, apiLog, apiLast,
          memMessages, memKeys, memLast, interpIn, interpOut>>

lruVars == <<lruMax, lruCache, lruRef, lruTouched, lruClean, lruNow, lruLast>>

\* The variables of the components checked on their own, the two pure
\* functions apart.
parserVars == <<parserCache, parserLast>>

isoVars == <<isoLocale, isoStore, isoHeap, isoNsMap, isoSets, isoCache,
             isoPending, isoLoads>>

cachedVars == <<cEnv, cLocal, cCustom, cLoaded, cNow, cPending, cFetches,
                cLast>>

apiVars == <<apiConfig, apiKnown, apiPending, apiLog, apiLast>>

memVars == <<memMessages, memKeys, memLast>>

interpVars == <<interpIn, interpOut>>

auxVars == <<lruVars, parserVars, isoVars, cachedVars, apiVars, memVars,
             interpVars>>

runtimeVars == <<currentLocale, fallbackLocale, hasLoader, hasNsLoader,
                 loadedMessages, loadedNamespaces, nsSets, pending, icuCache,
                 nsLoads, localeLoads, fetched, completedAt, last>>

SetIds == 1..(Cardinality(Locales) + MaxNsLoads)

NoCall == [op |-> "none"]
NoInput == [given |-> FALSE]

\* The Set objects something still refers to: the map's values and the
\* localeNamespaces of the pending loadNamespace calls.
Referenced(map, calls) ==
    {map[l] : l \in Locales} \cup {c.set : c \in calls}

\* An unreferenced Set object is garbage: its id is free again.
Collect(sets, map, calls) ==
    [i \in SetIds |-> IF i \in Referenced(map, calls) THEN sets[i] ELSE {}]

FreeSetId(map, calls) ==
    CHOOSE i \in SetIds :
        /\ i \notin Referenced(map, calls)
        /\ \A j \in SetIds : j < i => j \in Referenced(map, calls)

\* The pending calls are a bag: calls that agree on everything are told
\* apart by k, the k-th such call; the one of highest k is the one taken out.
\* over is history: the call was in flight together with one like it.
Call(op, locale, ns, set) ==
    [op |-> op, locale |-> locale, ns |-> ns, set |-> set, k |-> 1,
     over |-> FALSE]

Alike(c, d) ==
    /\ c.op = d.op /\ c.locale = d.locale /\ c.ns = d.ns /\ c.set = d.set

\* Two calls of the same operation for the same locale (and namespace).
SameTarget(c, d) == c.op = d.op /\ c.locale = d.locale /\ c.ns = d.ns

AddCall(calls, c) ==
    LET alike == {d \in calls : Alike(c, d)}
        same == {d \in calls : SameTarget(c, d)}
    IN  IF same = {} THEN calls \cup {c}
        ELSE (calls \ same)
             \cup {[d EXCEPT !.over = TRUE] : d \in same}
             \cup {[c EXCEPT !.k = 1 + Cardinality(alike), !.over = TRUE]}

IsTop(calls, c) == c.k = Cardinality({d \in calls : Alike(c, d)})

\* The state of an instance right after createI18n(config).
RuntimeInit ==
    /\ currentLocale \in CurrentChoices
    /\ \E config \in Configs :
        /\ fallbackLocale = config.fallback
        /\ hasLoader = config.loader
        /\ hasNsLoader = config.nsLoader
        /\ loadedMessages = config.messages
    /\ loadedNamespaces = [l \in Locales |-> 0]
    /\ nsSets = [i \in SetIds |-> {}]
    /\ pending = {}
    /\ icuCache = {}
    /\ nsLoads = 0
    /\ localeLoads = 0
    /\ fetched = {}
    /\ completedAt = {}
    /\ last = NoCall

\* No instance: the state of the runtime variables in the specifications
\* of the pure functions.
RuntimeIdle ==
    /\ currentLocale = LB
    /\ fallbackLocale = LB
    /\ hasLoader = FALSE
    /\ hasNsLoader = FALSE
    /\ loadedMessages = EmptyDict
    /\ loadedNamespaces = [l \in Locales |-> 0]
    /\ nsSets = [i \in SetIds |-> {}]
    /\ pending = {}
    /\ icuCache = {}
    /\ nsLoads = 0
    /\ localeLoads = 0
    /\ fetched = {}
    /\ completedAt = {}
    /\ last = NoCall

NoOutput == [done |-> FALSE]

ChainIdle ==
    /\ chainIn = NoInput
    /\ chainOut = NoOutput

PathIdle ==
    /\ pathIn = NoInput
    /\ pathOut = NoOutput

PureIdle == ChainIdle /\ PathIdle

\* No LRU cache.
LruIdle ==
    /\ lruMax = 0
    /\ lruCache = <<>>
    /\ lruRef = <<>>
    /\ lruTouched = <<>>
    /\ lruClean = TRUE
    /\ lruNow = 0
    /\ lruLast = NoCall

\* No parser on its own.
ParserIdle ==
    /\ parserCache = <<>>
    /\ parserLast = NoCall

\* No pair of instances.
IsoIdle ==
    /\ isoLocale = <<>>
    /\ isoStore = <<>>
    /\ isoHeap = <<>>
    /\ isoNsMap = <<>>
    /\ isoSets = <<>>
    /\ isoCache = <<>>
    /\ isoPending = {}
    /\ isoLoads = 0

\* No cached loader.
CachedIdle ==
    /\ cEnv = <<>>
    /\ cLocal = <<>>
    /\ cCustom = <<>>
    /\ cLoaded = <<>>
    /\ cNow = 0
    /\ cPending = {}
    /\ cFetches = 0
    /\ cLast = NoCall

\* No API loader.
ApiIdle ==
    /\ apiConfig = <<>>
    /\ apiKnown = <<>>
    /\ apiPending = {}
    /\ apiLog = <<>>
    /\ apiLast = NoCall

\* No in-memory loader.
MemIdle ==
    /\ memMessages = <<>>
    /\ memKeys = <<>>
    /\ memLast = NoCall

\* No interpolation.
InterpIdle ==
    /\ interpIn = <<>>
    /\ interpOut = <<>>

AuxIdle ==
    /\ LruIdle /\ ParserIdle /\ IsoIdle /\ CachedIdle
    /\ ApiIdle /\ MemIdle /\ InterpIdle


\* -------------------------------------------------------------- translate

\* What the caller of t sees: the string returned, or that t threw, and
\* the calls the hooks received.
TObs(key, params, outcome, value, missingKeyCalls, missCalls, errorCalls) ==
    [op |-> "t", key |-> key, params |-> params, locale |-> currentLocale,
     outcome |-> outcome, value |-> value,
     missingKeyCalls |-> missingKeyCalls, missCalls |-> missCalls,
     errorCalls |-> errorCalls]

tMessage(key) ==
    resolveMessageFromLoaded(key, currentLocale, fallbackLocale, loadedMessages)

\* t, no candidate yields a string: onMissingKey, then hooks.onMiss, then
\* the key is returned.  A hook that throws ends t there.
TMissing ==
    \E key \in Keys :
        /\ ~tMessage(key).found
        /\ \E params \in ParamChoices, h1, h2 \in HookOutcomes :
            last' = IF h1 = "throws"
                    THEN TObs(key, params, "threw", <<>>,
                              <<<<key, currentLocale>>>>, <<>>, 0)
                    ELSE IF h2 = "throws"
                    THEN TObs(key, params, "threw", <<>>,
                              <<<<key, currentLocale>>>>,
                              <<<<key, currentLocale>>>>, 0)
                    ELSE TObs(key, params, "returned", key,
                              <<<<key, currentLocale>>>>,
                              <<<<key, currentLocale>>>>, 0)
        /\ UNCHANGED <<currentLocale, fallbackLocale, hasLoader, hasNsLoader,
                       loadedMessages, loadedNamespaces, nsSets, pending,
                       icuCache, nsLoads, localeLoads, fetched, completedAt>>

\* t, a grammar-bearing message and params: the ICU parser formats it; the
\* catch block calls hooks.onError and returns the message.
TFormat ==
    \E key \in Keys :
        LET m == tMessage(key)
        IN  /\ m.found
            /\ isICUMessage(m.str)
            /\ \E params \in ParamChoices, lib \in LibOutcomes,
                  h3 \in HookOutcomes :
                LET r == icuFormat(icuCache, m.str, currentLocale, lib)
                IN  /\ params.given
                    /\ last' =
                         IF ~r.threw
                         THEN TObs(key, params, "returned", r.str,
                                   <<>>, <<>>, 0)
                         ELSE IF h3 = "throws"
                         THEN TObs(key, params, "threw", <<>>, <<>>, <<>>, 1)
                         ELSE TObs(key, params, "returned", m.str,
                                   <<>>, <<>>, 1)
                    /\ icuCache' = r.cache
            /\ UNCHANGED <<currentLocale, fallbackLocale, hasLoader,
                           hasNsLoader, loadedMessages, loadedNamespaces,
                           nsSets, pending, nsLoads, localeLoads, fetched,
                           completedAt>>

\* t, any other message: interpolate when params were given, else the
\* message as stored.
TPlain ==
    \E key \in Keys :
        LET m == tMessage(key)
        IN  /\ m.found
            /\ \E params \in ParamChoices :
                /\ ~(params.given /\ isICUMessage(m.str))
                /\ last' = TObs(key, params, "returned",
                                IF params.given
                                THEN interpolate(m.str, params) ELSE m.str,
                                <<>>, <<>>, 0)
            /\ UNCHANGED <<currentLocale, fallbackLocale, hasLoader,
                           hasNsLoader, loadedMessages, loadedNamespaces,
                           nsSets, pending, icuCache, nsLoads, localeLoads,
                           fetched, completedAt>>

T == TMissing \/ TFormat \/ TPlain

\* -------------------------------------------------------------- setLocale

\* What the caller of setLocale passed.
SetLocaleObs(locale) == [op |-> "setLocale", locale |-> locale]

\* The faulty variant of SetLocale: the markers of the locale switched to
\* are dropped.
SetLocaleDropsMarkers ==
    \E locale \in CurrentChoices :
        /\ currentLocale' = locale
        /\ loadedNamespaces' = [loadedNamespaces EXCEPT ![locale] = 0]
        /\ nsSets' = Collect(nsSets, loadedNamespaces', pending)
        /\ last' = SetLocaleObs(locale)
        /\ UNCHANGED <<fallbackLocale, hasLoader, hasNsLoader, loadedMessages,
                       pending, icuCache, nsLoads, localeLoads, fetched,
                       completedAt>>

\* currentLocale = locale
SetLocale ==
    \E locale \in CurrentChoices :
        /\ currentLocale' = locale
        /\ last' = SetLocaleObs(locale)
        /\ UNCHANGED <<fallbackLocale, hasLoader, hasNsLoader, loadedMessages,
                       loadedNamespaces, nsSets, pending, icuCache, nsLoads,
                       localeLoads, fetched, completedAt>>

\* ------------------------------------------------------------- loadLocale

\* How a call of loadLocale or loadNamespace that awaited nothing ended.
LoadObs(op, name, outcome) == [op |-> op, name |-> name, outcome |-> outcome]

\* loadLocale up to its await: already loaded, no loader, or the loader is
\* invoked and the call is pending.
LoadLocaleSkip ==
    \E locale \in Locales :
        /\ locale \in DOMAIN loadedMessages
        /\ last' = LoadObs("loadLocale", locale, "resolved")
        /\ UNCHANGED <<currentLocale, fallbackLocale, hasLoader, hasNsLoader,
                       loadedMessages, loadedNamespaces, nsSets, pending,
                       icuCache, nsLoads, localeLoads, fetched, completedAt>>

LoadLocaleNoLoader ==
    \E locale \in Locales :
        /\ locale \notin DOMAIN loadedMessages
        /\ ~hasLoader
        /\ last' = LoadObs("loadLocale", locale, "rejected")
        /\ UNCHANGED <<currentLocale, fallbackLocale, hasLoader, hasNsLoader,
                       loadedMessages, loadedNamespaces, nsSets, pending,
                       icuCache, nsLoads, localeLoads, fetched, completedAt>>

LoadLocaleStart ==
    \E locale \in Locales :
        /\ locale \notin DOMAIN loadedMessages
        /\ hasLoader
        /\ localeLoads < MaxLocaleLoads
        /\ localeLoads' = localeLoads + 1
        /\ pending' = AddCall(pending, Call("loadLocale", locale, "", 0))
        /\ last' = NoCall
        /\ UNCHANGED <<currentLocale, fallbackLocale, hasLoader, hasNsLoader,
                       loadedMessages, loadedNamespaces, nsSets, icuCache,
                       nsLoads, fetched, completedAt>>

\* How a call that awaited its source settled: with which error it
\* rejected, if it did, and the calls hooks.onLoad received.
SourceError == "source error"
HookError == "hook error"
Settled(c, outcome, error, onLoadCalls) ==
    [op |-> "settled", call |-> c.op, locale |-> c.locale, ns |-> c.ns,
     outcome |-> outcome, error |-> error, onLoadCalls |-> onLoadCalls]

\* The faulty variant of LoadLocaleFailOf: the rejection of the loader is
\* reported to hooks.onLoad.
LoadLocaleFailHooked(c) ==
    /\ c.op = "loadLocale"
    /\ IsTop(pending, c)
    /\ pending' = pending \ {c}
    /\ last' = Settled(c, "rejected", SourceError, <<c.locale>>)
    /\ UNCHANGED <<currentLocale, fallbackLocale, hasLoader, hasNsLoader,
                   loadedMessages, loadedNamespaces, nsSets, icuCache,
                   nsLoads, localeLoads, fetched, completedAt>>

\* The loader rejected: the await throws its error, nothing after it runs
\* and loadLocale rejects with that error.
LoadLocaleFailOf(c) ==
    /\ c.op = "loadLocale"
    /\ IsTop(pending, c)
    /\ pending' = pending \ {c}
    /\ last' = Settled(c, "rejected", SourceError, <<>>)
    /\ UNCHANGED <<currentLocale, fallbackLocale, hasLoader, hasNsLoader,
                   loadedMessages, loadedNamespaces, nsSets, icuCache,
                   nsLoads, localeLoads, fetched, completedAt>>

LoadLocaleFail == \E c \in pending : LoadLocaleFailOf(c)

\* The loader resolved: the dictionary is installed, then hooks.onLoad is
\* called; a hook that throws makes loadLocale reject.
LoadLocaleDoneOf(c) ==
    /\ c.op = "loadLocale"
    /\ IsTop(pending, c)
    /\ pending' = pending \ {c}
    /\ loadedMessages' =
           [l \in DOMAIN loadedMessages \cup {c.locale} |->
               IF l = c.locale THEN LoaderData(c.locale)
               ELSE loadedMessages[l]]
    /\ \E h \in HookOutcomes :
           last' = IF h = "throws"
                   THEN Settled(c, "rejected", HookError, <<c.locale>>)
                   ELSE Settled(c, "resolved", "", <<c.locale>>)
    /\ UNCHANGED <<currentLocale, fallbackLocale, hasLoader, hasNsLoader,
                   loadedNamespaces, nsSets, icuCache, nsLoads,
                   localeLoads, fetched, completedAt>>

LoadLocaleDone == \E c \in pending : LoadLocaleDoneOf(c)

\* ---------------------------------------------------------- loadNamespace

\* loadedNamespaces.get(currentLocale)?.has(namespace) ?? false
isNamespaceLoaded(namespace) ==
    /\ loadedNamespaces[currentLocale] # 0
    /\ namespace \in nsSets[loadedNamespaces[currentLocale]]

\* { ...a, ...b }
Merge(a, b) ==
    [k \in DOMAIN a \cup DOMAIN b |-> IF k \in DOMAIN b THEN b[k] ELSE a[k]]

\* loadedMessages[locale], undefined spreading to nothing.
DictOf(locale) ==
    IF locale \in DOMAIN loadedMessages THEN loadedMessages[locale]
    ELSE EmptyDict

\* Whether loadNamespace(namespace), called now, gets as far as invoking
\* the namespace loader: the namespace is not in the Set of the current
\* locale and a namespace loader is configured.
loadNamespaceInvokes(namespace) ==
    /\ ~isNamespaceLoaded(namespace)
    /\ hasNsLoader

\* loadNamespace up to its await.  localeNamespaces is the Set of the
\* current locale, or a new Set that no map entry refers to yet.
LoadNamespaceSkip ==
    \E namespace \in Namespaces :
        /\ isNamespaceLoaded(namespace)
        /\ last' = LoadObs("loadNamespace", namespace, "resolved")
        /\ UNCHANGED <<currentLocale, fallbackLocale, hasLoader, hasNsLoader,
                       loadedMessages, loadedNamespaces, nsSets, pending,
                       icuCache, nsLoads, localeLoads, fetched, completedAt>>

LoadNamespaceNoLoader ==
    \E namespace \in Namespaces :
        /\ ~isNamespaceLoaded(namespace)
        /\ ~hasNsLoader
        /\ last' = LoadObs("loadNamespace", namespace, "rejected")
        /\ UNCHANGED <<currentLocale, fallbackLocale, hasLoader, hasNsLoader,
                       loadedMessages, loadedNamespaces, nsSets, pending,
                       icuCache, nsLoads, localeLoads, fetched, completedAt>>

LoadNamespaceStart ==
    \E namespace \in Namespaces :
        LET localeNamespaces ==
                IF loadedNamespaces[currentLocale] # 0
                THEN loadedNamespaces[currentLocale]
                ELSE FreeSetId(loadedNamespaces, pending)
        IN  /\ loadNamespaceInvokes(namespace)
            /\ nsLoads < MaxNsLoads
            /\ nsLoads' = nsLoads + 1
            /\ pending' = AddCall(pending,
                   Call("loadNamespace", currentLocale, namespace,
                        localeNamespaces))
            /\ last' = NoCall
            /\ UNCHANGED <<currentLocale, fallbackLocale, hasLoader,
                           hasNsLoader, loadedMessages, loadedNamespaces,
                           nsSets, icuCache, localeLoads, fetched, completedAt>>

\* The namespace loader rejected: the await throws its error, nothing after
\* it runs and loadNamespace rejects with that error.
LoadNamespaceFailOf(c) ==
    /\ c.op = "loadNamespace"
    /\ IsTop(pending, c)
    /\ pending' = pending \ {c}
    /\ nsSets' = Collect(nsSets, loadedNamespaces, pending')
    /\ last' = Settled(c, "rejected", SourceError, <<>>)
    /\ UNCHANGED <<currentLocale, fallbackLocale, hasLoader, hasNsLoader,
                   loadedMessages, loadedNamespaces, icuCache, nsLoads,
                   localeLoads, fetched, completedAt>>

LoadNamespaceFail == \E c \in pending : LoadNamespaceFailOf(c)

\* The namespace loader resolved with the fragment it was asked for
\* (c.ns, c.locale).  What follows the await reads currentLocale again:
\* the fragment is merged into the dictionary of the locale that is current
\* now, the namespace is added to the Set taken before the await, and that
\* Set becomes the map's entry of the locale that is current now; then
\* hooks.onLoad is called.
LoadNamespaceDoneOf(c) ==
    /\ c.op = "loadNamespace"
    /\ IsTop(pending, c)
    /\ pending' = pending \ {c}
    /\ loadedMessages' =
           [l \in DOMAIN loadedMessages \cup {currentLocale} |->
               IF l = currentLocale
               THEN Merge(DictOf(currentLocale), NsData(c.ns, c.locale))
               ELSE loadedMessages[l]]
    /\ loadedNamespaces' = [loadedNamespaces EXCEPT ![currentLocale] = c.set]
    /\ nsSets' = Collect([nsSets EXCEPT ![c.set] = @ \cup {c.ns}],
                         loadedNamespaces', pending')
    /\ fetched' = fetched \cup {<<c.ns, c.locale>>}
    /\ completedAt' = completedAt \cup {<<c.ns, currentLocale>>}
    /\ \E h \in HookOutcomes :
           LET name == currentLocale \o <<":">> \o <<c.ns>>
           IN  last' = IF h = "throws"
                       THEN Settled(c, "rejected", HookError, <<name>>)
                       ELSE Settled(c, "resolved", "", <<name>>)
    /\ UNCHANGED <<currentLocale, fallbackLocale, hasLoader, hasNsLoader,
                   icuCache, nsLoads, localeLoads>>

LoadNamespaceDone == \E c \in pending : LoadNamespaceDoneOf(c)

\* ---------------------------------------------------------- specification

Init == RuntimeInit /\ PureIdle /\ AuxIdle

Next ==
    \/ (T /\ UNCHANGED <<chainIn, chainOut, pathIn, pathOut, auxVars>>)
    \/ (SetLocale /\ UNCHANGED <<chainIn, chainOut, pathIn, pathOut, auxVars>>)
    \/ (LoadLocaleSkip /\ UNCHANGED <<chainIn, chainOut, pathIn, pathOut, auxVars>>)
    \/ (LoadLocaleNoLoader /\ UNCHANGED <<chainIn, chainOut, pathIn, pathOut, auxVars>>)
    \/ (LoadLocaleStart /\ UNCHANGED <<chainIn, chainOut, pathIn, pathOut, auxVars>>)
    \/ (LoadLocaleFail /\ UNCHANGED <<chainIn, chainOut, pathIn, pathOut, auxVars>>)
    \/ (LoadLocaleDone /\ UNCHANGED <<chainIn, chainOut, pathIn, pathOut, auxVars>>)
    \/ (LoadNamespaceSkip /\ UNCHANGED <<chainIn, chainOut, pathIn, pathOut, auxVars>>)
    \/ (LoadNamespaceNoLoader /\ UNCHANGED <<chainIn, chainOut, pathIn, pathOut, auxVars>>)
    \/ (LoadNamespaceStart /\ UNCHANGED <<chainIn, chainOut, pathIn, pathOut, auxVars>>)
    \/ (LoadNamespaceFail /\ UNCHANGED <<chainIn, chainOut, pathIn, pathOut, auxVars>>)
    \/ (LoadNamespaceDone /\ UNCHANGED <<chainIn, chainOut, pathIn, pathOut, auxVars>>)

Spec == Init /\ [][Next]_vars


\* -------------------------------------- the fallback resolver on its own

\* The locale codes the resolver is applied to: every string over a
\* letter, another letter and the separator, the malformed ones included.
LocaleCodes == StringsUpTo({"a", "b", "-"}, MaxLocaleLen)

InitChain ==
    /\ chainIn \in [given : {TRUE}, locale : LocaleCodes,
                    fallback : LocaleCodes]
    /\ chainOut = NoOutput
    /\ PathIdle
    /\ AuxIdle
    /\ RuntimeIdle

ChainApply ==
    /\ chainIn.given
    /\ ~chainOut.done
    /\ chainOut' = [done |-> TRUE,
                    chain |-> buildFallbackChain(chainIn.locale,
                                                 chainIn.fallback)]
    /\ UNCHANGED <<chainIn, pathIn, pathOut, auxVars>>
    /\ UNCHANGED runtimeVars

SpecChain == InitChain /\ [][ChainApply]_vars

\* ----------------------------------------- the key-path resolver on its own

\* The property names of the dictionaries: the empty string and "a".
PathKeys == {<<>>, <<"a">>}

\* The values that are no objects: a string and a number.
Leaves == {StrV(<<"v">>), NumV}

\* Every function from some of the property names to values.
DictsOver(values) == UNION {[ks -> values] : ks \in SUBSET PathKeys}

\* The dictionaries nested at most depth levels deep.
RECURSIVE DictsOfDepth(_)
DictsOfDepth(depth) ==
    IF depth <= 1 THEN DictsOver(Leaves)
    ELSE DictsOver(Leaves \cup {ObjV(d) : d \in DictsOfDepth(depth - 1)})

\* The paths: every string over "a" and the separator.
Paths == StringsUpTo({"a", "."}, MaxPathLen)

\* The dictionaries of the runtime's configuration, and what merging a
\* namespace fragment into one of them gives.
MergedDicts ==
    {ConfigMessages[l] : l \in {LA, LB}}
    \cup {Merge(ConfigMessages[l], NsData(n, l)) : l \in {LA, LB},
                                                  n \in Namespaces}

InitPath ==
    /\ pathIn \in [given : {TRUE},
                   obj : DictsOfDepth(MaxDepth) \cup MergedDicts,
                   path : Paths \cup {KAB, KG, K1, K2}]
    /\ pathOut = NoOutput
    /\ ChainIdle
    /\ AuxIdle
    /\ RuntimeIdle

PathApply ==
    /\ pathIn.given
    /\ ~pathOut.done
    /\ pathOut' = [done |-> TRUE, res |-> getByPath(pathIn.obj, pathIn.path),
                   flat |-> flattenMessages(pathIn.obj, <<>>)]
    /\ UNCHANGED <<pathIn, chainIn, chainOut, auxVars>>
    /\ UNCHANGED runtimeVars

SpecPath == InitPath /\ [][PathApply]_vars


\* ------------------------------------------------- the LRU cache on its own

MaxCapacity == 2
MaxLruOps == 5

\* The keys: distinct strings, one more than the largest capacity.
LruKeys == 1..(MaxCapacity + 1)

Undefined == "undefined"

\* The values stored: two objects and undefined.
LruValues == {"v1", "v2", Undefined}

\* Map.prototype.has / get / delete / set on a Map kept as the sequence of
\* its entries in insertion order.  set on a key the Map holds leaves the
\* entry in its place.
MapHas(map, key) == \E i \in 1..Len(map) : map[i].key = key

MapGet(map, key) ==
    IF MapHas(map, key)
    THEN map[CHOOSE i \in 1..Len(map) : map[i].key = key].value
    ELSE Undefined

MapDelete(map, key) == SelectSeq(map, LAMBDA e : e.key # key)

MapSet(map, key, value) ==
    IF MapHas(map, key)
    THEN [i \in 1..Len(map) |->
             IF map[i].key = key THEN [key |-> key, value |-> value]
             ELSE map[i]]
    ELSE Append(map, [key |-> key, value |-> value])

\* Faulty variant: a hit is returned without moving the entry.
lruGetNoPromote(cache, key) ==
    [value |-> MapGet(cache, key), cache |-> cache]

\* get: the value, and the Map afterwards; a value that is not undefined
\* is deleted and set again, which moves it to the end.
lruGet(cache, key) ==
    LET value == MapGet(cache, key)
    IN  [value |-> value,
         cache |-> IF value # Undefined
                   THEN MapSet(MapDelete(cache, key), key, value)
                   ELSE cache]

\* The key undefined, a key like any other for a Map.
UndefinedKey == 0

\* while (cache.size > maxSize): the first key of the Map is deleted when
\* it is not undefined.  The result is the Map the loop ends with, or the
\* Map on which it goes round for ever: one that is over the capacity and
\* is empty or has undefined for its first key.
RECURSIVE EvictOldest(_, _)
EvictOldest(cache, maxSize) ==
    IF Len(cache) > maxSize /\ cache # <<>> /\ cache[1].key # UndefinedKey
    THEN EvictOldest(MapDelete(cache, cache[1].key), maxSize)
    ELSE cache

\* Faulty variant: nothing is evicted.
lruSetNoEvict(cache, maxSize, key, value) ==
    MapSet(IF MapHas(cache, key) THEN MapDelete(cache, key) ELSE cache,
           key, value)

\* set: the Map afterwards.
lruSet(cache, maxSize, key, value) ==
    LET c1 == IF MapHas(cache, key) THEN MapDelete(cache, key) ELSE cache
        c2 == MapSet(c1, key, value)
    IN  EvictOldest(c2, maxSize)

\* set does not return: its loop is left with a Map over the capacity that
\* it no longer changes.
lruSetHangs(cache, maxSize, key, value) ==
    Len(lruSet(cache, maxSize, key, value)) > maxSize

\* The reference recency list: for every key it holds, the time of its
\* last use and its value; time 0 is a key it does not hold.
RefAbsent == [time |-> 0, value |-> Undefined]
RefHeld(ref) == {k \in LruKeys : ref[k].time # 0}
RefOldest(ref) ==
    CHOOSE k \in RefHeld(ref) : \A j \in RefHeld(ref) : ref[k].time <= ref[j].time

\* The reference after set(key, value) at time now: a new key at full
\* capacity takes the place of the least recently used one.
RefSet(ref, maxSize, key, value, now) ==
    LET full == key \notin RefHeld(ref) /\ Cardinality(RefHeld(ref)) >= maxSize
        kept == IF full THEN [ref EXCEPT ![RefOldest(ref)] = RefAbsent] ELSE ref
    IN  [kept EXCEPT ![key] = [time |-> now, value |-> value]]

LruObs(op, key, result) == [op |-> op, key |-> key, result |-> result]

InitLru ==
    /\ lruMax \in 1..MaxCapacity
    /\ lruCache = <<>>
    /\ lruRef = [k \in LruKeys |-> RefAbsent]
    /\ lruTouched = [k \in LruKeys |-> 0]
    /\ lruClean = TRUE
    /\ lruNow = 0
    /\ lruLast = NoCall
    /\ ParserIdle
    /\ IsoIdle
    /\ CachedIdle
    /\ ApiIdle
    /\ MemIdle
    /\ InterpIdle
    /\ PureIdle
    /\ RuntimeIdle

LruGet ==
    \E key \in LruKeys :
        LET r == lruGet(lruCache, key)
            hit == r.value # Undefined
        IN  /\ lruNow < MaxLruOps
            /\ lruNow' = lruNow + 1
            /\ lruCache' = r.cache
            /\ lruLast' = LruObs("get", key, r.value)
            /\ lruRef' = IF hit THEN [lruRef EXCEPT ![key].time = lruNow']
                         ELSE lruRef
            /\ lruTouched' = IF hit THEN [lruTouched EXCEPT ![key] = lruNow']
                             ELSE lruTouched
            /\ UNCHANGED <<lruMax, lruClean>>

LruSet ==
    \E key \in LruKeys, value \in LruValues :
        /\ lruNow < MaxLruOps
        /\ lruNow' = lruNow + 1
        /\ lruCache' = lruSet(lruCache, lruMax, key, value)
        /\ lruLast' = LruObs("set", key, Undefined)
        /\ lruRef' = RefSet(lruRef, lruMax, key, value, lruNow')
        /\ lruTouched' = [lruTouched EXCEPT ![key] = lruNow']
        /\ UNCHANGED <<lruMax, lruClean>>

LruHas ==
    \E key \in LruKeys :
        /\ lruNow < MaxLruOps
        /\ lruNow' = lruNow + 1
        /\ lruLast' = LruObs("has", key, MapHas(lruCache, key))
        /\ UNCHANGED <<lruMax, lruCache, lruRef, lruTouched, lruClean>>

LruDelete ==
    \E key \in LruKeys :
        /\ lruNow < MaxLruOps
        /\ lruNow' = lruNow + 1
        /\ lruCache' = MapDelete(lruCache, key)
        /\ lruLast' = LruObs("delete", key, MapHas(lruCache, key))
        /\ lruRef' = [lruRef EXCEPT ![key] = RefAbsent]
        /\ lruClean' = (lruClean /\ ~MapHas(lruCache, key))
        /\ UNCHANGED <<lruMax, lruTouched>>

\* clear: the cache is empty again, and so is its history.
LruClear ==
    /\ lruNow < MaxLruOps
    /\ lruNow' = lruNow + 1
    /\ lruCache' = <<>>
    /\ lruLast' = LruObs("clear", 0, Undefined)
    /\ lruRef' = [k \in LruKeys |-> RefAbsent]
    /\ lruTouched' = [k \in LruKeys |-> 0]
    /\ lruClean' = TRUE
    /\ UNCHANGED lruMax

LruSize ==
    /\ lruNow < MaxLruOps
    /\ lruNow' = lruNow + 1
    /\ lruLast' = LruObs("size", 0, Len(lruCache))
    /\ UNCHANGED <<lruMax, lruCache, lruRef, lruTouched, lruClean>>

NextLru ==
    \/ (LruGet /\ UNCHANGED <<runtimeVars, chainIn, chainOut, pathIn, pathOut, parserVars, isoVars,
                       cachedVars, apiVars, memVars, interpVars>>)
    \/ (LruSet /\ UNCHANGED <<runtimeVars, chainIn, chainOut, pathIn, pathOut, parserVars, isoVars,
                       cachedVars, apiVars, memVars, interpVars>>)
    \/ (LruHas /\ UNCHANGED <<runtimeVars, chainIn, chainOut, pathIn, pathOut, parserVars, isoVars,
                       cachedVars, apiVars, memVars, interpVars>>)
    \/ (LruDelete /\ UNCHANGED <<runtimeVars, chainIn, chainOut, pathIn, pathOut, parserVars, isoVars,
                       cachedVars, apiVars, memVars, interpVars>>)
    \/ (LruClear /\ UNCHANGED <<runtimeVars, chainIn, chainOut, pathIn, pathOut, parserVars, isoVars,
                       cachedVars, apiVars, memVars, interpVars>>)
    \/ (LruSize /\ UNCHANGED <<runtimeVars, chainIn, chainOut, pathIn, pathOut, parserVars, isoVars,
                       cachedVars, apiVars, memVars, interpVars>>)

SpecLru == InitLru /\ [][NextLru]_vars

\* ------------------------- the LRU cache, with any capacity and any key

\* The capacities a cache may be constructed with, and the keys it may be
\* given: a negative capacity and zero, and the key undefined, among them.
AnyCapacities == (0 - 1)..MaxCapacity
AnyKeys == {UndefinedKey} \cup (1..MaxCapacity)

Hangs == "hangs"

\* The last call returned.
LruReturned == ~(lruLast.op = "set" /\ lruLast.result = Hangs)

InitLruAny ==
    /\ lruMax \in AnyCapacities
    /\ lruCache = <<>>
    /\ lruRef = <<>>
    /\ lruTouched = <<>>
    /\ lruClean = TRUE
    /\ lruNow = 0
    /\ lruLast = NoCall
    /\ ParserIdle
    /\ IsoIdle
    /\ CachedIdle
    /\ ApiIdle
    /\ MemIdle
    /\ InterpIdle
    /\ PureIdle
    /\ RuntimeIdle

\* set(key, value): what the Map is left as, and whether the call returns.
LruAnySet ==
    \E key \in AnyKeys, value \in LruValues :
        /\ LruReturned
        /\ lruNow < MaxLruOps
        /\ lruNow' = lruNow + 1
        /\ lruCache' = lruSet(lruCache, lruMax, key, value)
        /\ lruLast' = LruObs("set", key,
                             IF lruSetHangs(lruCache, lruMax, key, value)
                             THEN Hangs ELSE Undefined)
        /\ UNCHANGED <<lruMax, lruRef, lruTouched, lruClean>>

LruAnyDelete ==
    \E key \in AnyKeys :
        /\ LruReturned
        /\ lruNow < MaxLruOps
        /\ lruNow' = lruNow + 1
        /\ lruCache' = MapDelete(lruCache, key)
        /\ lruLast' = LruObs("delete", key, MapHas(lruCache, key))
        /\ UNCHANGED <<lruMax, lruRef, lruTouched, lruClean>>

LruAnySize ==
    /\ LruReturned
    /\ lruNow < MaxLruOps
    /\ lruNow' = lruNow + 1
    /\ lruLast' = LruObs("size", 0, Len(lruCache))
    /\ UNCHANGED <<lruMax, lruCache, lruRef, lruTouched, lruClean>>

lruRest == <<runtimeVars, chainIn, chainOut, pathIn, pathOut, parserVars,
             isoVars, cachedVars, apiVars, memVars, interpVars>>

NextLruAny ==
    \/ (LruAnySet /\ UNCHANGED lruRest)
    \/ (LruAnyDelete /\ UNCHANGED lruRest)
    \/ (LruAnySize /\ UNCHANGED lruRest)

SpecLruAny == InitLruAny /\ [][NextLruAny]_vars


\* ------------------------------------------------ the ICU parser on its own

\* The capacity the compiled-template cache is said to have, scaled to the
\* model (the one capacity in the source is DEFAULT_CACHE_SIZE, of the LRU
\* cache).
ParserCapacity == 2

\* The locales format is called with: two language tags and a string that
\* is no language tag.
ParserLocales == {<<"e">>, <<"f">>, <<"e", ":", "x">>}

\* The templates: plain text, plain text with a colon, a grammar-bearing
\* template with the argument n, and a malformed one.
ParserMessages == {<<"h">>, <<"x", ":", "h">>, MsgPlural, <<"{">>}

\* new IntlMessageFormat(message, locale) throws on a string that is no
\* language tag and on a template that does not parse.
ValidLocale(locale) == ":" \notin Range(locale)
WellFormed(message) ==
    Cardinality({i \in 1..Len(message) : message[i] = "{"})
        = Cardinality({i \in 1..Len(message) : message[i] = "}"})
LibCompiles(message, locale) == ValidLocale(locale) /\ WellFormed(message)

\* formatter.format(params) throws when the template has an argument the
\* params do not give.
LibEvalThrows(formatter, params) ==
    /\ "{" \in Range(formatter.message)
    /\ <<"n">> \notin DOMAIN params.map

\* What formatter.format(params) returns: plain text as it is, and else a
\* text made for the template, the locale and the value of the argument.
LibEval(formatter, params) ==
    IF "{" \notin Range(formatter.message) THEN formatter.message
    ELSE <<"F">> \o formatter.locale \o formatter.message
             \o Stringify(params.map[<<"n">>])

\* Faulty variant: format without its try/catch.
parserFormatNoCatch(cache, message, locale, params) ==
    LET key == CacheKey(message, locale)
        hit == key \in DOMAIN cache
        compiled == hit \/ LibCompiles(message, locale)
        formatter == IF hit THEN cache[key]
                     ELSE [message |-> message, locale |-> locale]
        failed == ~compiled \/ LibEvalThrows(formatter, params)
    IN  [outcome |-> IF failed THEN "threw" ELSE "returned",
         failed |-> failed,
         value |-> IF failed THEN <<>> ELSE LibEval(formatter, params),
         cache |-> IF compiled /\ ~hit THEN cache @@ (key :> formatter)
                   ELSE cache]

\* format, with getFormatter inlined: the formatter is the one the cache
\* holds under `${locale}:${message}`, or is compiled and put there; what
\* is thrown on the way is caught and the message is returned.
parserFormat(cache, message, locale, params) ==
    LET key == CacheKey(message, locale)
        hit == key \in DOMAIN cache
        compiled == hit \/ LibCompiles(message, locale)
        formatter == IF hit THEN cache[key]
                     ELSE [message |-> message, locale |-> locale]
        failed == ~compiled \/ LibEvalThrows(formatter, params)
    IN  [outcome |-> "returned",
         failed |-> failed,
         value |-> IF failed THEN message ELSE LibEval(formatter, params),
         cache |-> IF compiled /\ ~hit THEN cache @@ (key :> formatter)
                   ELSE cache]

InitParser ==
    /\ parserCache = <<>>
    /\ parserLast = NoCall
    /\ LruIdle
    /\ IsoIdle
    /\ CachedIdle
    /\ ApiIdle
    /\ MemIdle
    /\ InterpIdle
    /\ PureIdle
    /\ RuntimeIdle

ParserFormat ==
    \E message \in ParserMessages, locale \in ParserLocales,
       params \in ParamChoices :
        LET r == parserFormat(parserCache, message, locale, params)
        IN  /\ parserCache' = r.cache
            /\ parserLast' = [op |-> "format", message |-> message,
                              locale |-> locale, params |-> params,
                              outcome |-> r.outcome, failed |-> r.failed,
                              value |-> r.value]

ParserClearCache ==
    /\ parserCache' = <<>>
    /\ parserLast' = [op |-> "clearCache"]

NextParser ==
    \/ (ParserFormat
        /\ UNCHANGED <<runtimeVars, chainIn, chainOut, pathIn, pathOut, lruVars,
                       isoVars, cachedVars, apiVars, memVars, interpVars>>)
    \/ (ParserClearCache
        /\ UNCHANGED <<runtimeVars, chainIn, chainOut, pathIn, pathOut, lruVars,
                       isoVars, cachedVars, apiVars, memVars, interpVars>>)

SpecParser == InitParser /\ [][NextParser]_vars


\* ------------------------------------- two instances from the same config

MaxIsoLoads == 2

\* Two instances made by createI18n from the same config: the same
\* messages object, loader and namespace loader, locale LB, fallback LB.
Instances == {"A", "B"}
IsoLocales == {LB, LAR}
IsoNamespaces == {"n1"}

\* config.messages holds one dictionary, for LB: object 1 of the heap.
\* The loader gives any caller the same object for a locale, as the
\* in-memory loader does: object 2 for LAR.
IsoConfigHeap ==
    <<(KK :> StrV(<<"K">>) @@ KP :> StrV(MsgPlural)), LoaderData(LAR)>>
ConfigObject(locale) == IF locale = LB THEN 1 ELSE 0
LoaderObject(locale) == IF locale = LAR THEN 2 ELSE 0

\* loadedMessages of an instance, by value.
IsoMessages(i) ==
    [l \in {x \in IsoLocales : isoStore[i][x] # 0} |-> isoHeap[isoStore[i][l]]]

\* Faulty variant: the fragment is merged into the dictionary object itself.
MergedIntoInPlace(heap, target, fragment) ==
    IF target = 0
    THEN [heap |-> Append(heap, fragment), id |-> Len(heap) + 1]
    ELSE [heap |-> [heap EXCEPT ![target] = Merge(@, fragment)],
          id |-> target]

\* { ...loadedMessages[currentLocale], ...messages }: a new object.
MergedInto(heap, target, fragment) ==
    [heap |-> Append(heap, Merge(IF target = 0 THEN EmptyDict
                                 ELSE heap[target], fragment)),
     id |-> Len(heap) + 1]

\* The pending calls of the two instances are a bag, as those of one.
IsoCall(i, op, locale, ns, set) ==
    [inst |-> i, op |-> op, locale |-> locale, ns |-> ns, set |-> set, k |-> 1]

IsoAlike(c, d) == c.inst = d.inst /\ Alike(c, d)

IsoAddCall(calls, c) ==
    calls \cup {[c EXCEPT !.k = 1 + Cardinality({d \in calls : IsoAlike(c, d)})]}

IsoIsTop(calls, c) == c.k = Cardinality({d \in calls : IsoAlike(c, d)})

InitIso ==
    /\ isoLocale = [i \in Instances |-> LB]
    /\ isoStore = [i \in Instances |-> [l \in IsoLocales |-> ConfigObject(l)]]
    /\ isoHeap = IsoConfigHeap
    /\ isoNsMap = [i \in Instances |-> [l \in IsoLocales |-> 0]]
    /\ isoSets = <<>>
    /\ isoCache = [i \in Instances |-> {}]
    /\ isoPending = {}
    /\ isoLoads = 0
    /\ LruIdle
    /\ ParserIdle
    /\ CachedIdle
    /\ ApiIdle
    /\ MemIdle
    /\ InterpIdle
    /\ PureIdle
    /\ RuntimeIdle

\* t on instance i: what it leaves behind is the formatter in the cache of
\* the instance's parser.
IsoTOn(i) ==
    \E key \in {KP}, params \in ParamChoices,
       lib \in LibOutcomes :
        LET m == resolveMessageFromLoaded(key, isoLocale[i], LB, IsoMessages(i))
        IN  /\ isoCache' =
                   IF m.found /\ params.given /\ isICUMessage(m.str)
                   THEN [isoCache EXCEPT ![i] =
                            icuFormat(@, m.str, isoLocale[i], lib).cache]
                   ELSE isoCache
            /\ UNCHANGED <<isoLocale, isoStore, isoHeap, isoNsMap, isoSets,
                           isoPending, isoLoads>>

IsoSetLocaleOn(i) ==
    \E locale \in IsoLocales :
        /\ isoLocale' = [isoLocale EXCEPT ![i] = locale]
        /\ UNCHANGED <<isoStore, isoHeap, isoNsMap, isoSets, isoCache,
                       isoPending, isoLoads>>

IsoLoadLocaleSkipOn(i) ==
    \E locale \in IsoLocales :
        /\ isoStore[i][locale] # 0
        /\ UNCHANGED <<isoLocale, isoStore, isoHeap, isoNsMap, isoSets,
                       isoCache, isoPending, isoLoads>>

IsoLoadLocaleStartOn(i) ==
    \E locale \in IsoLocales :
        /\ isoStore[i][locale] = 0
        /\ isoLoads < MaxIsoLoads
        /\ isoLoads' = isoLoads + 1
        /\ isoPending' = IsoAddCall(isoPending,
               IsoCall(i, "loadLocale", locale, "", 0))
        /\ UNCHANGED <<isoLocale, isoStore, isoHeap, isoNsMap, isoSets,
                       isoCache>>

IsoLoadLocaleFailOn(i) ==
    \E c \in {d \in isoPending : d.inst = i} :
        /\ c.op = "loadLocale"
        /\ IsoIsTop(isoPending, c)
        /\ isoPending' = isoPending \ {c}
        /\ UNCHANGED <<isoLocale, isoStore, isoHeap, isoNsMap, isoSets,
                       isoCache, isoLoads>>

\* loadedMessages[locale] = messages: the object the loader gave.
IsoLoadLocaleDoneOn(i) ==
    \E c \in {d \in isoPending : d.inst = i} :
        /\ c.op = "loadLocale"
        /\ IsoIsTop(isoPending, c)
        /\ isoPending' = isoPending \ {c}
        /\ isoStore' = [isoStore EXCEPT ![c.inst][c.locale] =
                            LoaderObject(c.locale)]
        /\ UNCHANGED <<isoLocale, isoHeap, isoNsMap, isoSets, isoCache,
                       isoLoads>>

IsoNsLoaded(i, namespace) ==
    /\ isoNsMap[i][isoLocale[i]] # 0
    /\ namespace \in isoSets[isoNsMap[i][isoLocale[i]]]

IsoLoadNamespaceSkipOn(i) ==
    \E namespace \in IsoNamespaces :
        /\ IsoNsLoaded(i, namespace)
        /\ UNCHANGED <<isoLocale, isoStore, isoHeap, isoNsMap, isoSets,
                       isoCache, isoPending, isoLoads>>

\* loadNamespace up to its await; a locale without a Set gets a new one.
IsoLoadNamespaceStartOn(i) ==
    \E namespace \in IsoNamespaces :
        LET had == isoNsMap[i][isoLocale[i]]
            localeNamespaces == IF had # 0 THEN had ELSE Len(isoSets) + 1
        IN  /\ ~IsoNsLoaded(i, namespace)
            /\ isoLoads < MaxIsoLoads
            /\ isoLoads' = isoLoads + 1
            /\ isoSets' = IF had # 0 THEN isoSets ELSE Append(isoSets, {})
            /\ isoPending' = IsoAddCall(isoPending,
                   IsoCall(i, "loadNamespace", isoLocale[i], namespace,
                           localeNamespaces))
            /\ UNCHANGED <<isoLocale, isoStore, isoHeap, isoNsMap, isoCache>>

IsoLoadNamespaceFailOn(i) ==
    \E c \in {d \in isoPending : d.inst = i} :
        /\ c.op = "loadNamespace"
        /\ IsoIsTop(isoPending, c)
        /\ isoPending' = isoPending \ {c}
        /\ UNCHANGED <<isoLocale, isoStore, isoHeap, isoNsMap, isoSets,
                       isoCache, isoLoads>>

\* loadNamespace after its await, on the instance of the call.
IsoLoadNamespaceDoneOn(i) ==
    \E c \in {d \in isoPending : d.inst = i} :
        LET current == isoLocale[c.inst]
            merged == MergedInto(isoHeap, isoStore[c.inst][current],
                                 NsData(c.ns, c.locale))
        IN  /\ c.op = "loadNamespace"
            /\ IsoIsTop(isoPending, c)
            /\ isoPending' = isoPending \ {c}
            /\ isoHeap' = merged.heap
            /\ isoStore' = [isoStore EXCEPT ![c.inst][current] = merged.id]
            /\ isoSets' = [isoSets EXCEPT ![c.set] = @ \cup {c.ns}]
            /\ isoNsMap' = [isoNsMap EXCEPT ![c.inst][current] = c.set]
            /\ UNCHANGED <<isoLocale, isoCache, isoLoads>>

isoRest == <<runtimeVars, chainIn, chainOut, pathIn, pathOut, lruVars,
             parserVars, cachedVars, apiVars, memVars, interpVars>>

NextIso ==
    \/ ((\E i \in Instances : IsoTOn(i)) /\ UNCHANGED isoRest)
    \/ ((\E i \in Instances : IsoSetLocaleOn(i)) /\ UNCHANGED isoRest)
    \/ ((\E i \in Instances : IsoLoadLocaleSkipOn(i)) /\ UNCHANGED isoRest)
    \/ ((\E i \in Instances : IsoLoadLocaleStartOn(i)) /\ UNCHANGED isoRest)
    \/ ((\E i \in Instances : IsoLoadLocaleFailOn(i)) /\ UNCHANGED isoRest)
    \/ ((\E i \in Instances : IsoLoadLocaleDoneOn(i)) /\ UNCHANGED isoRest)
    \/ ((\E i \in Instances : IsoLoadNamespaceSkipOn(i)) /\ UNCHANGED isoRest)
    \/ ((\E i \in Instances : IsoLoadNamespaceStartOn(i)) /\ UNCHANGED isoRest)
    \/ ((\E i \in Instances : IsoLoadNamespaceFailOn(i)) /\ UNCHANGED isoRest)
    \/ ((\E i \in Instances : IsoLoadNamespaceDoneOn(i)) /\ UNCHANGED isoRest)

SpecIso == InitIso /\ [][NextIso]_vars


\* --------------------------------------------- the cached loader on its own

\* config.ttl, in ticks of the clock, and how far the clock and the
\* invocations of the wrapped source go, and how many loads are in flight
\* at once.
CachedTtl == 1
MaxTime == 2
MaxFetches == 2
MaxInFlight == 2

CachedLocales == {LA, LB}

\* The wrapped source: what it returns for a locale when asked at a time
\* (the messages change as time goes by), its getAvailableLocales() and its
\* hasLocale(locale).
SourceData(locale, time) == <<locale, time>>
SourceList == <<LA>>
SourceHas(locale) == Includes(SourceList, locale)

\* A stored entry, a raw entry that JSON.parse rejects, and no entry.  What
\* JSON.stringify and JSON.parse do to messages of the model gives them back
\* as they were.
Entry(messages, timestamp) ==
    [has |-> TRUE, parses |-> TRUE, messages |-> messages,
     timestamp |-> timestamp]
Corrupt == [has |-> TRUE, parses |-> FALSE, messages |-> <<>>, timestamp |-> 0]
NoEntry == [has |-> FALSE, parses |-> TRUE, messages |-> <<>>, timestamp |-> 0]

\* What storage.get resolves with: messages or null; the faulty variant
\* lets the parse error through.
Got(messages) == [threw |-> FALSE, has |-> TRUE, messages |-> messages]
GotNull == [threw |-> FALSE, has |-> FALSE, messages |-> <<>>]
GotError == [threw |-> TRUE, has |-> FALSE, messages |-> <<>>]

\* Date.now() - timestamp > ttl
isExpired(timestamp, ttl) == cNow - timestamp > ttl

\* createLocalStorageCache(prefix).get without its try and catch.
localStorageGetNoCatch(locale) ==
    IF ~cEnv.localStorage THEN GotNull
    ELSE IF ~cLocal[locale].has THEN GotNull
    ELSE IF ~cLocal[locale].parses THEN GotError
    ELSE Got(cLocal[locale].messages)

\* createLocalStorageCache(prefix).get: null when there is no localStorage,
\* no raw entry, or a raw entry that does not parse.
localStorageGet(locale) ==
    IF ~cEnv.localStorage THEN GotNull
    ELSE IF ~cLocal[locale].has THEN GotNull
    ELSE IF ~cLocal[locale].parses THEN GotNull
    ELSE Got(cLocal[locale].messages)

\* storage.get(locale): config.storage when given, else the default.
StorageGet(locale) ==
    IF cEnv.custom
    THEN IF cCustom[locale].has THEN Got(cCustom[locale].messages) ELSE GotNull
    ELSE localStorageGet(locale)

\* The test of load on what storage.get gave: with a localStorage the raw
\* entry is read from localStorage under the prefix and must be there, parse
\* and not be expired; without one the cached value is assumed valid.
ReturnsCached(c) ==
    /\ c.cached.has
    /\ IF cEnv.localStorage
       THEN /\ cLocal[c.locale].has
            /\ cLocal[c.locale].parses
            /\ ~isExpired(cLocal[c.locale].timestamp, CachedTtl)
       ELSE TRUE

\* The entry of the locale in the persistent layer of the loader.
PersistedEntry(locale) ==
    IF cEnv.custom THEN cCustom[locale]
    ELSE IF cEnv.localStorage THEN cLocal[locale] ELSE NoEntry

\* That entry when it parses and its age does not exceed the ttl.
FreshEntry(locale) ==
    LET e == PersistedEntry(locale)
    IN  IF e.has /\ e.parses /\ cNow - e.timestamp <= CachedTtl
        THEN e ELSE NoEntry

\* Set.prototype.add on a Set kept in insertion order, and [...new Set(arr)].
SetAdd(s, x) == IF Includes(s, x) THEN s ELSE Append(s, x)

RECURSIVE Dedup(_)
Dedup(arr) ==
    IF arr = <<>> THEN <<>>
    ELSE SetAdd(Dedup(SubSeq(arr, 1, Len(arr) - 1)), arr[Len(arr)])

\* hasLocale(locale) and getAvailableLocales() of the cached loader.
cachedHasLocale(locale) == Includes(cLoaded, locale) \/ SourceHas(locale)
cachedGetAvailableLocales == Dedup(cLoaded \o SourceList)

\* A call in flight: a load awaiting storage.get ("get"), source.load
\* ("source") or storage.set ("set"), or a clearCache awaiting storage.clear.
CachedCall(op, stage, id, locale, cached, messages, corrupt) ==
    [op |-> op, stage |-> stage, id |-> id, locale |-> locale,
     cached |-> cached, messages |-> messages, corrupt |-> corrupt]

ClearCall == CachedCall("clear", "clear", 0, <<>>, GotNull, <<>>, FALSE)

CachedObs(locale, fresh, result, messages, invoked) ==
    [op |-> "load", locale |-> locale, fresh |-> fresh, result |-> result,
     messages |-> messages, sourceInvoked |-> invoked]

\* How a load ended: resolved or rejected, with what, and what it had met.
CachedEnd(op, c, result, messages, error) ==
    [op |-> op, locale |-> c.locale, result |-> result, messages |-> messages,
     error |-> error, corrupt |-> c.corrupt, cached |-> c.cached]

\* How a load whose storage.set threw ended, fromSource being what the
\* source had returned to it.
CachedSetEnd(c, fromSource, result, messages, error) ==
    [op |-> "setFailed", locale |-> c.locale, fetched |-> fromSource,
     result |-> result, messages |-> messages, error |-> error]

InitCached ==
    /\ cEnv \in [localStorage : BOOLEAN, custom : BOOLEAN]
    /\ cLocal = [l \in CachedLocales |-> NoEntry]
    /\ cCustom = [l \in CachedLocales |-> NoEntry]
    /\ cLoaded = <<>>
    /\ cNow = 0
    /\ cPending = {}
    /\ cFetches = 0
    /\ cLast = NoCall
    /\ ApiIdle
    /\ MemIdle
    /\ InterpIdle
    /\ LruIdle
    /\ ParserIdle
    /\ IsoIdle
    /\ PureIdle
    /\ RuntimeIdle

\* load, up to the await of storage.get(locale); a get that throws rejects
\* the load.
CachedLoad ==
    \E locale \in CachedLocales :
        LET got == StorageGet(locale)
            corrupt == ~cEnv.custom /\ cEnv.localStorage /\ cLocal[locale].has
                       /\ ~cLocal[locale].parses
            c == CachedCall("load", "get", 0, locale, got, <<>>, corrupt)
        IN  /\ cFetches < MaxFetches
            /\ Cardinality({p \in cPending : p.op = "load"}) < MaxInFlight
            /\ cPending' = IF got.threw THEN cPending ELSE cPending \cup {c}
            /\ cLast' = IF got.threw
                        THEN CachedEnd("failed", c, "threw", <<>>, "parse")
                        ELSE NoCall
            /\ UNCHANGED <<cEnv, cLocal, cCustom, cLoaded, cNow, cFetches>>

\* load, the cached value is returned.
CachedLoadHit ==
    \E c \in cPending :
        /\ c.stage = "get"
        /\ ReturnsCached(c)
        /\ cPending' = cPending \ {c}
        /\ cLoaded' = SetAdd(cLoaded, c.locale)
        /\ cLast' = CachedObs(c.locale, FreshEntry(c.locale), "returned",
                              c.cached.messages, FALSE)
        /\ UNCHANGED <<cEnv, cLocal, cCustom, cNow, cFetches>>

\* load, up to the await of source.load(locale).
CachedLoadMiss ==
    \E c \in cPending :
        /\ c.stage = "get"
        /\ ~ReturnsCached(c)
        /\ cFetches < MaxFetches
        /\ cFetches' = cFetches + 1
        /\ cPending' = (cPending \ {c}) \cup
               {[c EXCEPT !.stage = "source", !.id = cFetches + 1]}
        /\ cLast' = CachedObs(c.locale, FreshEntry(c.locale), "pending",
                              <<>>, TRUE)
        /\ UNCHANGED <<cEnv, cLocal, cCustom, cLoaded, cNow>>

\* The source resolved: storage.set(locale, messages), up to its await.
CachedFetchDone ==
    \E c \in cPending :
        LET messages == SourceData(c.locale, cNow)
        IN  /\ c.stage = "source"
            /\ cPending' = (cPending \ {c}) \cup
                   {[c EXCEPT !.stage = "set", !.messages = messages]}
            /\ cCustom' = IF cEnv.custom
                          THEN [cCustom EXCEPT ![c.locale] = Entry(messages, cNow)]
                          ELSE cCustom
            /\ cLocal' = IF ~cEnv.custom /\ cEnv.localStorage
                         THEN [cLocal EXCEPT ![c.locale] = Entry(messages, cNow)]
                         ELSE cLocal
            /\ cLast' = CachedEnd("fetched", c, "pending", messages, "")
            /\ UNCHANGED <<cEnv, cLoaded, cNow, cFetches>>

\* The source resolved and storage.set(locale, messages) threw (setItem over
\* the quota, a config.storage whose set rejects) before writing anything:
\* the catch around the fetch takes it for a failure of the source, returns
\* the cached value when storage.get had given one and throws the error
\* otherwise.
CachedSetFail ==
    \E c \in cPending :
        LET fromSource == SourceData(c.locale, cNow)
        IN  /\ c.stage = "source"
            /\ cEnv.custom \/ cEnv.localStorage
            /\ cPending' = cPending \ {c}
            /\ cLoaded' = IF c.cached.has THEN SetAdd(cLoaded, c.locale)
                          ELSE cLoaded
            /\ cLast' = IF c.cached.has
                        THEN CachedSetEnd(c, fromSource, "returned",
                                          c.cached.messages, "")
                        ELSE CachedSetEnd(c, fromSource, "threw", <<>>,
                                          "storage")
            /\ UNCHANGED <<cEnv, cLocal, cCustom, cNow, cFetches>>

\* storage.set resolved: loadedLocales.add(locale), return messages.
CachedLoadReturn ==
    \E c \in cPending :
        /\ c.stage = "set"
        /\ cPending' = cPending \ {c}
        /\ cLoaded' = SetAdd(cLoaded, c.locale)
        /\ cLast' = CachedEnd("resolved", c, "returned", c.messages, "")
        /\ UNCHANGED <<cEnv, cLocal, cCustom, cNow, cFetches>>

\* The source rejected: the stale cached value is returned when there is
\* one, else the error is thrown.
CachedFetchFail ==
    \E c \in cPending :
        /\ c.stage = "source"
        /\ cPending' = cPending \ {c}
        /\ cLoaded' = IF c.cached.has THEN SetAdd(cLoaded, c.locale) ELSE cLoaded
        /\ cLast' = IF c.cached.has
                    THEN CachedEnd("failed", c, "returned", c.cached.messages, "")
                    ELSE CachedEnd("failed", c, "threw", <<>>, "source")
        /\ UNCHANGED <<cEnv, cLocal, cCustom, cNow, cFetches>>

\* clearCache, up to the await of storage.clear().
CachedClearCache ==
    /\ cPending' = cPending \cup {ClearCall}
    /\ cCustom' = IF cEnv.custom THEN [l \in CachedLocales |-> NoEntry]
                  ELSE cCustom
    /\ cLocal' = IF ~cEnv.custom /\ cEnv.localStorage
                 THEN [l \in CachedLocales |-> NoEntry] ELSE cLocal
    /\ cLast' = NoCall
    /\ UNCHANGED <<cEnv, cLoaded, cNow, cFetches>>

\* storage.clear() resolved: loadedLocales.clear(), and clearCache resolves.
CachedClearDone ==
    /\ ClearCall \in cPending
    /\ cPending' = cPending \ {ClearCall}
    /\ cLoaded' = <<>>
    /\ cLast' = [op |-> "clear"]
    /\ UNCHANGED <<cEnv, cLocal, cCustom, cNow, cFetches>>

\* Between the calls of the loader, something else leaves under the key of
\* a locale a raw entry that does not parse.
CachedCorrupt ==
    \E locale \in CachedLocales :
        /\ cEnv.localStorage
        /\ ~cEnv.custom
        /\ cPending = {}
        /\ cLocal' = [cLocal EXCEPT ![locale] = Corrupt]
        /\ cLast' = NoCall
        /\ UNCHANGED <<cEnv, cCustom, cLoaded, cNow, cPending, cFetches>>

\* Time passes.
CachedTick ==
    /\ cNow < MaxTime
    /\ cNow' = cNow + 1
    /\ cLast' = NoCall
    /\ UNCHANGED <<cEnv, cLocal, cCustom, cLoaded, cPending, cFetches>>

cachedRest == <<runtimeVars, chainIn, chainOut, pathIn, pathOut, lruVars,
                parserVars, isoVars, apiVars, memVars, interpVars>>

NextCached ==
    \/ (CachedLoad /\ UNCHANGED cachedRest)
    \/ (CachedLoadHit /\ UNCHANGED cachedRest)
    \/ (CachedLoadMiss /\ UNCHANGED cachedRest)
    \/ (CachedFetchDone /\ UNCHANGED cachedRest)
    \/ (CachedLoadReturn /\ UNCHANGED cachedRest)
    \/ (CachedFetchFail /\ UNCHANGED cachedRest)
    \/ (CachedSetFail /\ UNCHANGED cachedRest)
    \/ (CachedClearCache /\ UNCHANGED cachedRest)
    \/ (CachedClearDone /\ UNCHANGED cachedRest)
    \/ (CachedCorrupt /\ UNCHANGED cachedRest)
    \/ (CachedTick /\ UNCHANGED cachedRest)

SpecCached == InitCached /\ [][NextCached]_vars


\* ------------------------------------------------ the API loader on its own

\* How many calls of load the model follows.
MaxApiCalls == 2

ApiLocales == {LA, LB}
ApiBaseUrls == {<<"/", "i">>, <<"/", "i", "/">>}

\* The status of a Response; Response.ok is true for the statuses 200-299.
ApiStatuses == {200, 204, 304, 404, 500}
ResponseOk(status) == status >= 200 /\ status <= 299

\* What response.json() does: resolves with the payload, or rejects when
\* the body is not JSON.
ApiBodies == {"json", "not-json"}
Payload(locale) == <<"payload", locale>>

\* config.transform, when configured.
transform(data) == <<"transformed", data>>

\* `${baseUrl}/${locale}.json`
ApiUrl(baseUrl, locale) == baseUrl \o <<"/">> \o locale \o <<".", "j", "s", "o", "n">>

\* new Error(`Locale not found: ${locale}`)
LocaleNotFound(locale) ==
    [name |-> "Error", message |-> <<"Locale not found: ">> \o locale]

\* new Error(`Failed to load locale ${locale}: ${response.status}`)
FailedToLoad(locale, status) ==
    [name |-> "Error",
     message |-> <<"Failed to load locale ">> \o locale \o <<": ">>
                 \o <<ToString(status)>>]

\* The error thrown for a response that is not ok, without the test of 404.
apiErrorNo404(locale, status) == FailedToLoad(locale, status)

\* The error thrown for a response that is not ok.
apiError(locale, status) ==
    IF status = 404 THEN LocaleNotFound(locale)
    ELSE FailedToLoad(locale, status)

ApiObs(c, status, body, outcome, value, error) ==
    [op |-> "load", id |-> c.id, locale |-> c.locale, status |-> status,
     body |-> body, outcome |-> outcome, value |-> value, error |-> error]

NoError == [name |-> "", message |-> <<>>]

InitApi ==
    /\ apiConfig \in [baseUrl : ApiBaseUrls, transform : BOOLEAN]
    /\ apiKnown = <<>>
    /\ apiPending = {}
    /\ apiLog = <<>>
    /\ apiLast = NoCall
    /\ MemIdle
    /\ InterpIdle
    /\ CachedIdle
    /\ LruIdle
    /\ ParserIdle
    /\ IsoIdle
    /\ PureIdle
    /\ RuntimeIdle

\* load, up to the await of fetchFn(url, ...): the request is issued.
ApiLoad ==
    \E locale \in ApiLocales :
        LET id == Len(apiLog) + 1
        IN  /\ Len(apiLog) < MaxApiCalls
            /\ apiLog' = Append(apiLog,
                   [call |-> id, locale |-> locale, method |-> "GET",
                    url |-> ApiUrl(apiConfig.baseUrl, locale)])
            /\ apiPending' = apiPending \cup
                   {[id |-> id, locale |-> locale, stage |-> "fetch",
                     status |-> 0]}
            /\ apiLast' = NoCall
            /\ UNCHANGED <<apiConfig, apiKnown>>

\* fetchFn rejected (no network): the load rejects with that error.
ApiNetworkError ==
    \E c \in apiPending :
        /\ c.stage = "fetch"
        /\ apiPending' = apiPending \ {c}
        /\ apiLast' = ApiObs(c, 0, "", "rejected", <<>>,
                             [name |-> "TypeError", message |-> <<"fetch">>])
        /\ UNCHANGED <<apiConfig, apiKnown, apiLog>>

\* fetchFn resolved with a response: a response that is not ok rejects the
\* load, an ok one is read with response.json().
ApiResponse ==
    \E c \in apiPending, status \in ApiStatuses :
        /\ c.stage = "fetch"
        /\ IF ~ResponseOk(status)
           THEN /\ apiPending' = apiPending \ {c}
                /\ apiLast' = ApiObs(c, status, "", "rejected", <<>>,
                                     apiError(c.locale, status))
           ELSE /\ apiPending' = (apiPending \ {c}) \cup
                       {[c EXCEPT !.stage = "json", !.status = status]}
                /\ apiLast' = NoCall
        /\ UNCHANGED <<apiConfig, apiKnown, apiLog>>

\* response.json() settled: knownLocales.add(locale) and the payload is
\* returned, through the transform when there is one; a body that is not
\* JSON rejects the load.
ApiBody ==
    \E c \in apiPending, body \in ApiBodies :
        /\ c.stage = "json"
        /\ apiPending' = apiPending \ {c}
        /\ IF body = "json"
           THEN /\ apiKnown' = SetAdd(apiKnown, c.locale)
                /\ apiLast' = ApiObs(c, c.status, body, "resolved",
                       IF apiConfig.transform THEN transform(Payload(c.locale))
                       ELSE Payload(c.locale), NoError)
           ELSE /\ apiKnown' = apiKnown
                /\ apiLast' = ApiObs(c, c.status, body, "rejected", <<>>,
                       [name |-> "SyntaxError", message |-> <<"json">>])
        /\ UNCHANGED <<apiConfig, apiLog>>

apiRest == <<runtimeVars, chainIn, chainOut, pathIn, pathOut, lruVars,
             parserVars, isoVars, cachedVars, memVars, interpVars>>

NextApi ==
    \/ (ApiLoad /\ UNCHANGED apiRest)
    \/ (ApiNetworkError /\ UNCHANGED apiRest)
    \/ (ApiResponse /\ UNCHANGED apiRest)
    \/ (ApiBody /\ UNCHANGED apiRest)

SpecApi == InitApi /\ [][NextApi]_vars


\* ------------------------------------------- the in-memory loader on its own

\* A property name that every object literal inherits from Object.prototype.
InheritedKey == <<"t", "o", "S", "t", "r", "i", "n", "g">>

MemKeys == {LA, LB, LAR}
MemLocales == MemKeys \cup {<<"z">>, InheritedKey}

\* The dictionaries given at construction.
MemDicts == {<<"d1">>, <<"d2">>}

\* Object.keys(messages), in the order of insertion.
RECURSIVE KeysOf(_, _)
KeysOf(obj, order) ==
    IF order = <<>> THEN <<>>
    ELSE (IF Head(order) \in DOMAIN obj THEN <<Head(order)>> ELSE <<>>)
         \o KeysOf(obj, Tail(order))

\* messages[locale]: an own property, else a property inherited from
\* Object.prototype (a function), else undefined.
PropertyGet(obj, key) ==
    IF key \in DOMAIN obj THEN [truthy |-> TRUE, value |-> obj[key]]
    ELSE IF key = InheritedKey
         THEN [truthy |-> TRUE, value |-> <<"Object.prototype.toString">>]
    ELSE [truthy |-> FALSE, value |-> <<>>]

\* load(locale)
memLoad(locale) ==
    LET dict == PropertyGet(memMessages, locale)
    IN  IF ~dict.truthy
        THEN [outcome |-> "rejected", value |-> <<>>,
              error |-> LocaleNotFound(locale)]
        ELSE [outcome |-> "resolved", value |-> dict.value, error |-> NoError]

\* hasLocale(locale): Object.prototype.hasOwnProperty.call(messages, locale)
memHasLocale(locale) == locale \in DOMAIN memMessages

\* getAvailableLocales(): [...locales]
memGetAvailableLocales == memKeys

InitMem ==
    /\ \E keys \in SUBSET MemKeys : memMessages \in [keys -> MemDicts]
    /\ memKeys = KeysOf(memMessages, <<LA, LB, LAR>>)
    /\ memLast = NoCall
    /\ ApiIdle
    /\ InterpIdle
    /\ CachedIdle
    /\ LruIdle
    /\ ParserIdle
    /\ IsoIdle
    /\ PureIdle
    /\ RuntimeIdle

MemLoad ==
    \E locale \in MemLocales :
        /\ memLast' = [op |-> "load", locale |-> locale,
                       result |-> memLoad(locale)]
        /\ UNCHANGED <<memMessages, memKeys>>

MemHasLocale ==
    \E locale \in MemLocales :
        /\ memLast' = [op |-> "hasLocale", locale |-> locale,
                       result |-> memHasLocale(locale)]
        /\ UNCHANGED <<memMessages, memKeys>>

MemGetAvailableLocales ==
    /\ memLast' = [op |-> "getAvailableLocales", locale |-> <<>>,
                   result |-> memGetAvailableLocales]
    /\ UNCHANGED <<memMessages, memKeys>>

memRest == <<runtimeVars, chainIn, chainOut, pathIn, pathOut, lruVars,
             parserVars, isoVars, cachedVars, apiVars, interpVars>>

NextMem ==
    \/ (MemLoad /\ UNCHANGED memRest)
    \/ (MemHasLocale /\ UNCHANGED memRest)
    \/ (MemGetAvailableLocales /\ UNCHANGED memRest)

SpecMem == InitMem /\ [][NextMem]_vars


\* ------------------------------------------------- interpolate on its own

MaxTemplateLen == 5

\* The templates: every string over the braces, a word character and a
\* character that is none.
Templates == StringsUpTo({"{", "}", "n", "-"}, MaxTemplateLen)

InterpParams ==
    {Params(EmptyDict),
     Params((<<"n">> :> PStr(<<"v">>))),
     Params((<<"n">> :> PStr(<<"{", "n", "}">>))),
     Params((<<"n">> :> PNull)),
     Params((<<"n">> :> PUndefined)),
     Params((<<"n">> :> PBare)),
     Params((<<"k">> :> PStr(<<"v">>))),
     Params((<<"n", "n">> :> PStr(<<"w">>)))}

InitInterp ==
    /\ interpIn \in [template : Templates, params : InterpParams]
    /\ interpOut = NoCall
    /\ ApiIdle
    /\ MemIdle
    /\ CachedIdle
    /\ LruIdle
    /\ ParserIdle
    /\ IsoIdle
    /\ PureIdle
    /\ RuntimeIdle

InterpApply ==
    /\ interpOut = NoCall
    /\ interpOut' =
           IF interpolateThrows(interpIn.template, interpIn.params)
           THEN [op |-> "interpolate", outcome |-> "threw", value |-> <<>>]
           ELSE [op |-> "interpolate", outcome |-> "returned",
                 value |-> interpolate(interpIn.template, interpIn.params)]
    /\ UNCHANGED <<interpIn, runtimeVars, chainIn, chainOut, pathIn, pathOut,
                   lruVars, parserVars, isoVars, cachedVars, apiVars, memVars>>

SpecInterp == InitInterp /\ [][InterpApply]_vars


\* ------------------------------------------------------------ properties

\* The locale code holds a separator.
HasSeparator(code) == "-" \in Range(code)

\* The place of the first occurrence of ch in s (Len(s) + 1 when none).
FirstIndex(s, ch) ==
    IF ch \in Range(s)
    THEN CHOOSE i \in 1..Len(s) :
             s[i] = ch /\ \A j \in 1..(i - 1) : s[j] # ch
    ELSE Len(s) + 1

\* The text before the first separator, and the text between the first
\* separator and the next one (or the end).
BaseOf(code) == SubSeq(code, 1, FirstIndex(code, "-") - 1)
RegionOf(code) ==
    LET rest == SubSeq(code, FirstIndex(code, "-") + 1, Len(code))
    IN  SubSeq(rest, 1, FirstIndex(rest, "-") - 1)

\* The locale code is of the form base-REGION, REGION not empty.
IsBaseRegion(code) == HasSeparator(code) /\ RegionOf(code) # <<>>

\* x is y followed by a separator and more: x is more specific than y.
MoreSpecific(x, y) ==
    /\ Len(x) > Len(y)
    /\ SubSeq(x, 1, Len(y)) = y
    /\ x[Len(y) + 1] = "-"

\* C6: for a locale code without a region (no separator, or nothing
\* after it) and any fallback, the chain is exactly [locale] when locale
\* equals fallback and exactly [locale, fallback] otherwise.
C6_NoRegionChain ==
    (chainOut.done /\ ~IsBaseRegion(chainIn.locale)) =>
        chainOut.chain =
            IF chainIn.locale = chainIn.fallback
            THEN <<chainIn.locale>>
            ELSE <<chainIn.locale, chainIn.fallback>>

RECURSIVE NodeAt(_, _, _)
NodeAt(d, segments, k) ==
    IF k = 0 THEN ObjV(d)
    ELSE LET prev == NodeAt(d, segments, k - 1)
         IN  IF prev.kind = "object" /\ segments[k] \in DOMAIN prev.obj
             THEN prev.obj[segments[k]]
             ELSE UndefV

\* What getByPath is said to return but for the empty path: a string only
\* at the end of a path through objects, and not-found for a missing
\* segment, a non-object intermediate and a terminal that is no string.
PathContract(d, path, res) ==
    LET segments == Split(path, ".")
        n == Len(segments)
        terminal == NodeAt(d, segments, n)
    IN  /\ res.found =>
               /\ \A k \in 0..(n - 1) : NodeAt(d, segments, k).kind = "object"
               /\ terminal.kind = "string"
               /\ res.str = terminal.str
        /\ (\E k \in 0..(n - 1) : NodeAt(d, segments, k).kind # "object") =>
               ~res.found
        /\ terminal.kind # "string" => ~res.found

\* C5: getByPath returns the value at the end of the path only if every
\* intermediate is an object and the terminal is a string, and not-found
\* for a missing segment, a non-object intermediate, an object terminal
\* and for the empty path.
C5_PathLookup ==
    pathOut.done =>
        /\ PathContract(pathIn.obj, pathIn.path, pathOut.res)
        /\ pathIn.path = <<>> => ~pathOut.res.found

\* The candidate dictionary holds the key itself with a string value.
ExactRef(d, key) == key \in DOMAIN d /\ d[key].kind = "string"

\* The key holds the separator and spells a path of the candidate
\* dictionary that ends on a string.
NestedRef(d, key) ==
    LET segments == Split(key, ".")
    IN  /\ "." \in Range(key)
        /\ NodeAt(d, segments, Len(segments)).kind = "string"

NestedStr(d, key) ==
    LET segments == Split(key, ".")
    IN  NodeAt(d, segments, Len(segments)).str

\* The places of the chain whose locale has a dictionary in the store that
\* yields a string for the key, one way or the other.
Yielding(chain, key) ==
    {i \in 1..Len(chain) :
        /\ chain[i] \in DOMAIN loadedMessages
        /\ \/ ExactRef(loadedMessages[chain[i]], key)
           \/ NestedRef(loadedMessages[chain[i]], key)}

\* The dictionary of the first candidate that yields a string.
FirstYielding(chain, key) ==
    LET ys == Yielding(chain, key)
    IN  loadedMessages[chain[CHOOSE i \in ys : \A j \in ys : i <= j]]

\* The last call was t(key), without params.
PlainCall == last.op = "t" /\ ~last.params.given

LastChain == buildFallbackChain(last.locale, fallbackLocale)

\* C1: in every reachable state, for every key and params, t returns a
\* string and does not throw, whatever the hooks do.
C1_NeverThrows ==
    last.op = "t" => last.outcome = "returned"

\* C2: when no candidate of the chain yields a string, t returns the key
\* and the missing-key hook is invoked exactly once, with the key and the
\* current locale; the hook is not invoked when a match is found.
C2_MissingKey ==
    last.op = "t" =>
        IF Yielding(LastChain, last.key) = {}
        THEN /\ last.outcome = "returned"
             /\ last.value = last.key
             /\ last.missingKeyCalls = <<<<last.key, currentLocale>>>>
        ELSE last.missingKeyCalls = <<>>

C4_ExactKeyFirst ==
    (PlainCall /\ Yielding(LastChain, last.key) # {}) =>
        LET d == FirstYielding(LastChain, last.key)
        IN  IF ExactRef(d, last.key)
            THEN last.value = d[last.key].str
            ELSE /\ "." \in Range(last.key)
                 /\ last.value = NestedStr(d, last.key)

C4_Witness ==
    /\ PlainCall
    /\ last.key = KAB
    /\ LET d == FirstYielding(LastChain, KAB)
       IN  /\ ExactRef(d, KAB)
           /\ NestedRef(d, KAB)
           /\ NestedStr(d, KAB) # d[KAB].str
           /\ last.value = d[KAB].str

\* C9: once loadNamespace(n) has completed while the current locale is L,
\* a later loadNamespace(n) made while the current locale is L does not
\* invoke the namespace source.
C9_NoReload ==
    \A n \in Namespaces :
        <<n, currentLocale>> \in completedAt => ~loadNamespaceInvokes(n)

\* C10: isNamespaceLoaded(n), evaluated while the current locale is L, is
\* true only if a loadNamespace(n) obtained the fragment for (n, L) from
\* the namespace source and completed.
C10_PerLocale ==
    \A n \in Namespaces :
        isNamespaceLoaded(n) => <<n, currentLocale>> \in fetched

\* C11: in every reachable state, if namespace N is in the loaded-namespace
\* Set of locale L, every key of the fragment the namespace source returns
\* for (N, L) is present in the dictionary of L in the store.
C11_MarkedImpliesMerged ==
    \A l \in Locales, n \in Namespaces :
        (loadedNamespaces[l] # 0 /\ n \in nsSets[loadedNamespaces[l]]) =>
            DOMAIN NsData(n, l) \subseteq DOMAIN DictOf(l)


\* The keys looked up around a merge: the keys t is called with and the
\* keys of the fragments.
MergeKeys == Keys \cup {K1, K2, <<"a">>}

\* C12: a successful loadNamespace only adds or overwrites: every key, flat
\* or dotted, that resolved to a string in the dictionary of the current
\* locale before the merge resolves afterwards to the fragment's value
\* when the fragment defines the key, and to its previous value otherwise.
C12_MergeAdditive ==
    [][\A c \in pending :
          LoadNamespaceDoneOf(c) =>
              \A key \in MergeKeys :
                  LET before == LookupInDict(DictOf(currentLocale), key)
                      after == LookupInDict(loadedMessages'[currentLocale], key)
                      fragment == NsData(c.ns, c.locale)
                  IN  before.found =>
                          after = IF key \in DOMAIN fragment
                                  THEN Found(fragment[key].str)
                                  ELSE before]_vars


\* The keys the cache holds, in the order of the Map.
LruOrder == [i \in 1..Len(lruCache) |-> lruCache[i].key]

\* The keys set or got since the cache was empty that it does not hold.
LruAbsent == {k \in LruKeys : lruTouched[k] # 0 /\ ~MapHas(lruCache, k)}

\* C13: after any sequence of get, set, has, delete and clear on a cache of
\* capacity C >= 1 its size is at most C; after C + 1 distinct keys were
\* inserted into an empty cache (and none deleted) it holds exactly C
\* entries, and the one absent key was touched before every key it holds.
C13_Bounded ==
    lruMax >= 1 =>
        /\ Len(lruCache) <= lruMax
        /\ lruLast.op = "size" => lruLast.result <= lruMax
        /\ (lruClean /\ Cardinality({k \in LruKeys : lruTouched[k] # 0})
                            = lruMax + 1) =>
               /\ Len(lruCache) = lruMax
               /\ Cardinality(LruAbsent) = 1
               /\ \A a \in LruAbsent : \A i \in 1..Len(lruCache) :
                      lruTouched[a] < lruTouched[lruCache[i].key]

C13_Witness ==
    /\ lruMax = MaxCapacity
    /\ lruClean
    /\ Cardinality({k \in LruKeys : lruTouched[k] # 0}) = lruMax + 1
    /\ Len(lruCache) = lruMax
    /\ lruLast.op = "size"

C15_CacheBounded ==
    Cardinality(DOMAIN parserCache) <= ParserCapacity

\* format(message, locale, params) on a parser that has compiled nothing.
FreshFormat(message, locale, params) ==
    LET formatter == [message |-> message, locale |-> locale]
    IN  IF LibCompiles(message, locale) /\ ~LibEvalThrows(formatter, params)
        THEN LibEval(formatter, params)
        ELSE message

\* C16: the result of format does not depend on the cache: after any
\* sequence of format and clearCache calls, what format returns is what
\* compiling the template afresh for the locale and evaluating it with the
\* params gives.
C16_CacheTransparent ==
    parserLast.op = "format" =>
        parserLast.value =
            FreshFormat(parserLast.message, parserLast.locale, parserLast.params)

\* C18: format never throws, and whenever compiling or evaluating fails it
\* returns the template it was given, unchanged.
C18_FailSoft ==
    parserLast.op = "format" =>
        /\ parserLast.outcome = "returned"
        /\ parserLast.failed => parserLast.value = parserLast.message

C18_Witness ==
    /\ parserLast.op = "format"
    /\ parserLast.failed
    /\ parserLast.message = MsgPlural
    /\ parserLast.locale = <<"e">>
    /\ CacheKey(MsgPlural, <<"e">>) \in DOMAIN parserCache
    /\ parserLast.value = MsgPlural


\* The last call was t on a grammar-bearing message with params, and the
\* formatting failed: what came back is not the formatted text.
FormatFailed ==
    /\ last.op = "t"
    /\ last.params.given
    /\ LET m == tMessage(last.key)
       IN  /\ m.found
           /\ isICUMessage(m.str)
           /\ last.outcome = "returned" =>
                  last.value # Formatted(m.str, last.locale)

\* C19: when t resolves a grammar-bearing message with params and the
\* formatting fails, t returns the raw template and the error hook is
\* invoked, once, with the error and the key and locale.
C19_ErrorHook ==
    FormatFailed =>
        /\ last.outcome = "returned"
        /\ last.value = tMessage(last.key).str
        /\ last.errorCalls = 1


\* What an instance shows: its current locale, its message store, its
\* namespace markers and the cache of its parser.
IsoView(i) ==
    [locale |-> isoLocale[i],
     messages |-> IsoMessages(i),
     namespaces |-> [l \in IsoLocales |->
                        IF isoNsMap[i][l] = 0 THEN {}
                        ELSE isoSets[isoNsMap[i][l]]],
     cache |-> isoCache[i]]

\* A step of an operation made on instance i.
IsoStepOn(i) ==
    \/ IsoTOn(i)
    \/ IsoSetLocaleOn(i)
    \/ IsoLoadLocaleSkipOn(i)
    \/ IsoLoadLocaleStartOn(i)
    \/ IsoLoadLocaleFailOn(i)
    \/ IsoLoadLocaleDoneOn(i)
    \/ IsoLoadNamespaceSkipOn(i)
    \/ IsoLoadNamespaceStartOn(i)
    \/ IsoLoadNamespaceFailOn(i)
    \/ IsoLoadNamespaceDoneOn(i)

\* C17: an operation on one instance (t, setLocale, loadLocale,
\* loadNamespace, and what they do when their source settles) leaves the
\* current locale, message store, namespace markers and compiled-template
\* cache of the other instance unchanged, the two being made from the same
\* messages object and the same loaders.
C17_Isolated ==
    [][\A i \in Instances :
          IsoStepOn(i) =>
              \A j \in Instances \ {i} : IsoView(j)' = IsoView(j)]_vars

C17_Witness ==
    /\ isoStore["A"][LB] # isoStore["B"][LB]
    /\ K1 \in DOMAIN isoHeap[isoStore["A"][LB]]
    /\ K1 \notin DOMAIN isoHeap[isoStore["B"][LB]]
    /\ isoCache["A"] # {}
    /\ isoCache["B"] = {}


\* C20: when the persistent cache holds an entry for the locale whose age
\* does not exceed the ttl, load(locale) returns that entry and does not
\* invoke the wrapped source, with the localStorage backend and with a
\* custom storage backend.
C20_FreshHit ==
    (cLast.op = "load" /\ cLast.fresh.has) =>
        /\ cLast.result = "returned"
        /\ cLast.messages = cLast.fresh.messages
        /\ ~cLast.sourceInvoked


\* C21: when the entry of the locale is absent or older than the ttl, load
\* invokes the wrapped source (an expired entry is not returned in its
\* place) and, when the source resolves, the messages it gave are persisted
\* with the timestamp of that moment, with every storage backend.
C21_ExpiredRefetch ==
    /\ (cLast.op = "load" /\ ~cLast.fresh.has) => cLast.sourceInvoked
    /\ (cLast.op = "fetched" /\ (cEnv.custom \/ cEnv.localStorage)) =>
           PersistedEntry(cLast.locale) = Entry(cLast.messages, cNow)

\* C22: when the wrapped source rejects, load resolves with the cached
\* dictionary if the persistent layer holds an entry for the locale, fresh
\* or expired, and rejects with the error of the source only if it holds
\* none.
C22_StaleOnFailure ==
    cLast.op = "failed" =>
        LET e == PersistedEntry(cLast.locale)
        IN  IF e.has /\ e.parses
            THEN cLast.result = "returned" /\ cLast.messages = e.messages
            ELSE cLast.result = "threw" /\ cLast.error = "source"

C24_ClearedIsEmpty ==
    cLast.op = "clear" =>
        /\ cLoaded = <<>>
        /\ cachedGetAvailableLocales = SourceList
        /\ \A l \in CachedLocales :
               /\ ~PersistedEntry(l).has
               /\ cachedHasLocale(l) = SourceHas(l)
               /\ ~ReturnsCached(CachedCall("load", "get", 0, l, StorageGet(l),
                                            <<>>, FALSE))

\* C25: every load(locale) of the API loader issues exactly one request, to
\* baseUrl/locale.json, and no other step issues any; a 404 response rejects
\* the load with the locale-not-found error, any other response that is not
\* ok rejects it with a different error, and an ok response that carries a
\* payload resolves it with the payload, passed through the transform when
\* one is configured.
ApiSettled ==
    apiLast.op = "load" =>
        /\ apiLast.status = 404 =>
               /\ apiLast.outcome = "rejected"
               /\ apiLast.error = LocaleNotFound(apiLast.locale)
        /\ (apiLast.status \notin {0, 404} /\ ~ResponseOk(apiLast.status)) =>
               /\ apiLast.outcome = "rejected"
               /\ \A l \in ApiLocales : apiLast.error # LocaleNotFound(l)
        /\ (ResponseOk(apiLast.status) /\ apiLast.body = "json") =>
               /\ apiLast.outcome = "resolved"
               /\ apiLast.value = IF apiConfig.transform
                                  THEN transform(Payload(apiLast.locale))
                                  ELSE Payload(apiLast.locale)

ApiRequests ==
    LET started == {c \in apiPending' : c.id \notin {d.id : d \in apiPending}}
    IN  IF apiLog' # apiLog \/ started # {}
        THEN \E c \in started :
                 /\ started = {c}
                 /\ c.stage = "fetch"
                 /\ Len(apiLog') = Len(apiLog) + 1
                 /\ SubSeq(apiLog', 1, Len(apiLog)) = apiLog
                 /\ apiLog'[Len(apiLog')].url =
                        apiConfig.baseUrl \o <<"/">> \o c.locale
                        \o <<".", "j", "s", "o", "n">>
        ELSE TRUE

C26_StaticSource ==
    /\ memLast.op = "load" =>
           IF memLast.locale \in DOMAIN memMessages
           THEN /\ memLast.result.outcome = "resolved"
                /\ memLast.result.value = memMessages[memLast.locale]
           ELSE /\ memLast.result.outcome = "rejected"
                /\ memLast.result.error = LocaleNotFound(memLast.locale)
    /\ memLast.op = "hasLocale" =>
           (memLast.result <=> memLoad(memLast.locale).outcome = "resolved")
    /\ memLast.op = "getAvailableLocales" =>
           \A l \in MemLocales :
               Includes(memLast.result, l) <=> memLoad(l).outcome = "resolved"

\* C27: loadLocale called on an instance that has no message loader, and
\* loadNamespace called on an instance that has no namespace loader, reject
\* with an error, and leave the message store and the namespace markers as
\* they were.
RefusedLoad ==
    /\ (last.op = "loadLocale" /\ ~hasLoader) => last.outcome = "rejected"
    /\ (last.op = "loadNamespace" /\ ~hasNsLoader) => last.outcome = "rejected"

RefusedLoadKeepsStore ==
    (last'.op \in {"loadLocale", "loadNamespace"}) =>
        UNCHANGED <<loadedMessages, loadedNamespaces, nsSets>>

C27_NoLoaderRejects == [](RefusedLoad) /\ [][RefusedLoadKeepsStore]_vars

\* C28: loads in flight are not deduplicated: while a loadLocale(l), or a
\* loadNamespace(n) under the current locale, is in flight and none has
\* completed, another such call gets as far as the source; and when the last
\* of two such calls that were in flight together completes, l is loaded and
\* the store holds the dictionary fetched for it (respectively n is marked
\* loaded for the locale the calls were made under and the dictionary of
\* that locale holds the fragment).
NotDeduplicated ==
    \A c \in pending :
        /\ (c.op = "loadNamespace" /\ c.locale = currentLocale
            /\ ~isNamespaceLoaded(c.ns)) => loadNamespaceInvokes(c.ns)
        /\ (c.op = "loadLocale" /\ c.locale \notin DOMAIN loadedMessages) =>
               hasLoader

OverlappedLoadsLand ==
    \A c \in pending :
        (c.over /\ \A d \in pending \ {c} : ~SameTarget(c, d)) =>
            /\ LoadNamespaceDoneOf(c) =>
                   /\ loadedNamespaces'[c.locale] # 0
                   /\ c.ns \in nsSets'[loadedNamespaces'[c.locale]]
                   /\ c.locale \in DOMAIN loadedMessages'
                   /\ \A key \in DOMAIN NsData(c.ns, c.locale) :
                          /\ key \in DOMAIN loadedMessages'[c.locale]
                          /\ loadedMessages'[c.locale][key] =
                                 NsData(c.ns, c.locale)[key]
            /\ LoadLocaleDoneOf(c) =>
                   /\ c.locale \in DOMAIN loadedMessages'
                   /\ loadedMessages'[c.locale] = LoaderData(c.locale)

C28_NoDedup == [](NotDeduplicated) /\ [][OverlappedLoadsLand]_vars

\* C29: interpolate(template, params) returns, never throwing, the template
\* in which every {identifier} whose identifier is an own key of params is
\* replaced by the stringified value ('' for null and undefined), every
\* other placeholder and all other text being left as they are.
IsPlaceholder(t, i, e) ==
    /\ t[i] = "{"
    /\ e >= i + 1
    /\ e + 1 <= Len(t)
    /\ t[e + 1] = "}"
    /\ \A j \in (i + 1)..e : t[j] \in WordChars

RECURSIVE Interpolated(_, _, _)
Interpolated(t, map, i) ==
    IF i > Len(t) THEN <<>>
    ELSE IF \E e \in i..Len(t) : IsPlaceholder(t, i, e)
    THEN LET e == CHOOSE x \in i..Len(t) : IsPlaceholder(t, i, x)
             key == SubSeq(t, i + 1, e)
         IN  (IF key \notin DOMAIN map THEN SubSeq(t, i, e + 1)
              ELSE IF map[key].kind \in {"null", "undefined"} THEN <<>>
              ELSE map[key].str)
             \o Interpolated(t, map, e + 2)
    ELSE <<t[i]>> \o Interpolated(t, map, i + 1)

C29_Interpolates ==
    interpOut.op = "interpolate" =>
        /\ interpOut.outcome = "returned"
        /\ interpOut.value =
               Interpolated(interpIn.template, interpIn.params.map, 1)

\* C30: for every dictionary d, a dictionary that a namespace fragment was
\* merged into included, and every dotted path p for which getByPath(d, p)
\* returns a string v, flattenMessages(d) has the entry p with the value v.
C30_FlattenAgrees ==
    (pathOut.done /\ pathOut.res.found) =>
        \A flat \in pathOut.flat :
            /\ pathIn.path \in DOMAIN flat
            /\ flat[pathIn.path] = pathOut.res.str

\* What a source returned for locale l, or what was given for l at
\* construction, under key k.
OwnContent(l, k) ==
    (IF l \in DOMAIN ConfigMessages /\ k \in DOMAIN ConfigMessages[l]
     THEN {ConfigMessages[l][k]} ELSE {})
    \cup (IF k \in DOMAIN LoaderData(l) THEN {LoaderData(l)[k]} ELSE {})
    \cup {NsData(n, l)[k] : n \in {m \in Namespaces : k \in DOMAIN NsData(m, l)}}

\* C31: for any interleaving of setLocale with a pending loadNamespace, the
\* dictionary of every locale in the store contains only content that a
\* source returned for that same locale or that was given for it at
\* construction.
C31_FragmentStaysInLocale ==
    \A l \in DOMAIN loadedMessages :
        \A k \in DOMAIN loadedMessages[l] :
            loadedMessages[l][k] \in OwnContent(l, k)

\* The dictionary of locale l in the store after the step holds every key
\* of the dictionary the loader supplies for l.
HoldsLoaderKeys(l) ==
    /\ l \in DOMAIN loadedMessages'
    /\ DOMAIN LoaderData(l) \subseteq DOMAIN loadedMessages'[l]

\* A call of loadLocale(l) resolves in this step: at once, the locale being
\* in the store already, or when the loader resolved.
LoadLocaleResolves(l) ==
    \/ LoadLocaleSkip /\ last' = LoadObs("loadLocale", l, "resolved")
    \/ \E c \in pending : c.locale = l /\ LoadLocaleDoneOf(c)

\* C32: after loadLocale(L) resolves on an instance with a loader
\* configured, the dictionary of L in the store contains every key of the
\* dictionary the loader supplies for L, whatever operations ran before or
\* during the call.
C32_LoadedHasLoaderKeys ==
    [][\A l \in Locales :
          (hasLoader /\ LoadLocaleResolves(l)) => HoldsLoaderKeys(l)]_vars

\* isLoaded(locale): hasOwnProperty on the store.
isLoaded(locale) == locale \in DOMAIN loadedMessages

\* The namespace is in the Set of the locale.
MarkedFor(locale, namespace) ==
    /\ loadedNamespaces[locale] # 0
    /\ namespace \in nsSets[loadedNamespaces[locale]]

\* A rejection of the message loader, passed on by the pending call c.
LoaderRejectionKept(c) ==
    LoadLocaleFailOf(c) =>
        /\ last'.outcome = "rejected" /\ last'.error = SourceError
        /\ last'.onLoadCalls = <<>>
        /\ UNCHANGED <<loadedMessages, loadedNamespaces>>
        /\ \A l \in Locales, n \in Namespaces :
               MarkedFor(l, n)' <=> MarkedFor(l, n)
        /\ ~isLoaded(c.locale) =>
               (~isLoaded(c.locale)' /\ hasLoader')

\* A rejection of the namespace loader, passed on by the pending call c.
NsLoaderRejectionKept(c) ==
    LoadNamespaceFailOf(c) =>
        /\ last'.outcome = "rejected" /\ last'.error = SourceError
        /\ last'.onLoadCalls = <<>>
        /\ UNCHANGED <<loadedMessages, loadedNamespaces>>
        /\ \A l \in Locales, n \in Namespaces :
               MarkedFor(l, n)' <=> MarkedFor(l, n)
        /\ ~isNamespaceLoaded(c.ns) =>
               (~isNamespaceLoaded(c.ns)' /\ loadNamespaceInvokes(c.ns)')

\* C33: when the loader (or the namespace loader) rejects, loadLocale (or
\* loadNamespace) rejects with the same error and changes nothing: the store
\* and the namespace markers are as they were, isLoaded (isNamespaceLoaded)
\* stays false, hooks.onLoad is not called, and a retry invokes the source
\* again.
C33_RejectionChangesNothing ==
    [][\A c \in pending :
          LoaderRejectionKept(c) /\ NsLoaderRejectionKept(c)]_vars

\* A loadNamespace was rejected by its source while the namespace was not
\* loaded and another load was still in flight.
C33_Witness ==
    /\ last.op = "settled" /\ last.call = "loadNamespace"
    /\ last.error = SourceError
    /\ ~isNamespaceLoaded(last.ns)
    /\ \E c \in pending : c.op = "loadLocale"

\* C34: if the load of the wrapped source succeeds, the load of the caching
\* decorator resolves with the dictionary the source just returned: a
\* failure of the storage write neither makes load reject nor makes it
\* return an older cached dictionary.
C34_WriteFailureIgnored ==
    /\ cLast.op = "resolved" => cLast.result = "returned"
    /\ cLast.op = "setFailed" =>
           /\ cLast.result = "returned"
           /\ cLast.messages = cLast.fetched

\* The message holds an opening brace, a variable reference with no closing
\* brace in it, a comma, one of the keywords plural, select and
\* selectordinal, and a comma, with nothing but blanks around the keyword.
GrammarBearing(m) ==
    \E open, comma1, keyword, comma2 \in 1..Len(m) :
        /\ open + 1 < comma1 /\ comma1 < keyword /\ keyword < comma2
        /\ m[open] = "{" /\ m[comma1] = "," /\ m[comma2] = ","
        /\ m[keyword] \in {"P", "S", "O"}
        /\ \A x \in (open + 1)..(comma1 - 1) : m[x] # "}"
        /\ \A x \in ((comma1 + 1)..(comma2 - 1)) \ {keyword} : m[x] = " "

\* C35: t hands a resolved message to the template formatter only when
\* params were supplied and the message is grammar-bearing; with params, a
\* message that is not grammar-bearing is interpolated literally; without
\* params the stored string is returned verbatim, grammar-bearing or not.
C35_Routing ==
    (last.op = "t" /\ tMessage(last.key).found) =>
        LET m == tMessage(last.key).str
        IN  IF last.params.given /\ GrammarBearing(m)
            THEN last.outcome = "returned" =>
                     last.value \in {Formatted(m, last.locale), m}
            ELSE /\ last.outcome = "returned"
                 /\ last.errorCalls = 0
                 /\ last.value = IF last.params.given
                                 THEN interpolate(m, last.params)
                                 ELSE m

\* t was called with params on a grammar-bearing message and returned what
\* the formatter made of it.
C35_Witness ==
    /\ last.op = "t" /\ last.params.given
    /\ tMessage(last.key).found
    /\ GrammarBearing(tMessage(last.key).str)
    /\ last.value = Formatted(tMessage(last.key).str, last.locale)

\* C36: no operation of an instance modifies a dictionary object in place:
\* every object that exists, those of config.messages and those a loader
\* returned among them, keeps its content; and when the store's reference
\* for a locale changes, it becomes the object the loader returned
\* (loadLocale) or an object that did not exist before (loadNamespace).
C36_NoInPlaceMutation ==
    [][/\ \A id \in DOMAIN isoHeap :
              id \in DOMAIN isoHeap' /\ isoHeap'[id] = isoHeap[id]
       /\ \A i \in Instances, l \in IsoLocales :
              isoStore'[i][l] # isoStore[i][l] =>
                  \/ isoStore'[i][l] = LoaderObject(l) /\ LoaderObject(l) # 0
                  \/ isoStore'[i][l] \notin DOMAIN isoHeap]_vars

\* A namespace fragment was merged into the dictionary an instance was
\* given in config.messages: its store refers to a new object, while the
\* other instance still refers to the given one, and has installed the
\* object the loader returned.
C36_Witness ==
    \E i, j \in Instances :
        /\ i # j
        /\ isoStore[i][LB] \notin {0, ConfigObject(LB)}
        /\ isoStore[j][LB] = ConfigObject(LB)
        /\ isoStore[j][LAR] = LoaderObject(LAR)

\* getLocale() and getFallback().
getLocale == currentLocale
getFallback == fallbackLocale

\* The current locale is what setLocale was last given: it changes only in
\* a call of setLocale, to the locale passed.
LocaleAsSet ==
    /\ last.op = "setLocale" => getLocale = last.locale
    /\ currentLocale' # currentLocale =>
           (last'.op = "setLocale" /\ getLocale' = last'.locale)

\* A call of setLocale invokes no source and leaves the store and the
\* namespace markers as they were.
SetLocaleFrame ==
    last'.op = "setLocale" =>
        UNCHANGED <<loadedMessages, loadedNamespaces, nsSets, pending,
                    nsLoads, localeLoads>>

C38_OneEntryPerPair ==
    parserLast.op = "format" =>
        LET key == CacheKey(parserLast.message, parserLast.locale)
        IN  key \in DOMAIN parserCache =>
                parserCache[key] = [message |-> parserLast.message,
                                    locale |-> parserLast.locale]

\* C39: for every locale code and every fallback, the requested locale is
\* the first element of buildFallbackChain(locale, fallback).
C39_LocaleFirst ==
    chainOut.done =>
        /\ Len(chainOut.chain) >= 1
        /\ chainOut.chain[1] = chainIn.locale

\* C40: set(k, v) terminates for every capacity given at construction,
\* zero and the negative ones included, and for every key, and leaves
\* size() <= max(capacity, 0).
C40_SetTerminates ==
    lruLast.op = "set" =>
        /\ lruLast.result # Hangs
        /\ Len(lruCache) <= IF lruMax > 0 THEN lruMax ELSE 0

====
